---- MODULE Spec2Model ----
(***************************************************************************)
(* A model of the acquisition layer of researchartifacts/artifact_analysis *)
(* (disk cache, cached fetchers, ACM DL circuit breaker, badge             *)
(* normaliser, results parser, affiliation classifier, committee           *)
(* aggregator).  Each subsystem has its own variables, its own initial     *)
(* predicate and next-state relation, and its own specification; the       *)
(* variables of the other subsystems are held at an idle value.            *)
(*                                                                         *)
(* Strings that the code inspects character by character are modelled as   *)
(* sequences of one-character strings.  Time is counted in days.           *)
(***************************************************************************)
EXTENDS Integers, Sequences, FiniteSets, Bags, TLC

(***************************************************************************)
(* Generic helpers.                                                        *)
(***************************************************************************)
Range(s) == {s[i] : i \in 1..Len(s)}

RECURSIVE SeqsUpTo(_, _)
\* all sequences over S of length at most n
SeqsUpTo(S, n) ==
    IF n = 0 THEN {<<>>}
    ELSE LET shorter == SeqsUpTo(S, n - 1)
         IN  shorter \cup {Append(s, x) : s \in shorter, x \in S}

(***************************************************************************)
(* Python string operations, on sequences of characters.  A character is a *)
(* one-character string; the three characters outside ASCII that the       *)
(* inputs use are written by name: "A_ACUTE" and "a_acute" are the letters *)
(* U+00C1 and U+00E1, "ACUTE" is the combining accent U+0301 and "EN_DASH" *)
(* is U+2013.                                                              *)
(***************************************************************************)
UpperCase == <<"A", "B", "C", "D", "E", "F", "G", "H", "I", "J", "K", "L",
    "M", "N", "O", "P", "Q", "R", "S", "T", "U", "V", "W", "X", "Y", "Z">>
LowerCase == <<"a", "b", "c", "d", "e", "f", "g", "h", "i", "j", "k", "l",
    "m", "n", "o", "p", "q", "r", "s", "t", "u", "v", "w", "x", "y", "z">>
\* the whitespace the inputs use
Whitespace == {" "}

\* str.lower(), one character
LowerChar(c) ==
    IF \E i \in 1..Len(UpperCase) : UpperCase[i] = c
    THEN LowerCase[CHOOSE i \in 1..Len(UpperCase) : UpperCase[i] = c]
    ELSE IF c = "A_ACUTE" THEN "a_acute"
    ELSE c

\* str.lower()
lower(s) == [i \in 1..Len(s) |-> LowerChar(s[i])]

RECURSIVE lstrip(_, _)
\* str.lstrip(chars)
lstrip(s, chars) ==
    IF s # <<>> /\ Head(s) \in chars THEN lstrip(Tail(s), chars) ELSE s

RECURSIVE rstrip(_, _)
\* str.rstrip(chars)
rstrip(s, chars) ==
    IF s # <<>> /\ s[Len(s)] \in chars
    THEN rstrip(SubSeq(s, 1, Len(s) - 1), chars)
    ELSE s

\* str.strip(chars); str.strip() is strip(s, Whitespace)
strip(s, chars) == rstrip(lstrip(s, chars), chars)

RECURSIVE CollapseSpaces(_)
\* re.sub(r'\s+', ' ', s)
CollapseSpaces(s) ==
    IF s = <<>> THEN s
    ELSE IF Head(s) \in Whitespace
    THEN <<" ">> \o CollapseSpaces(lstrip(s, Whitespace))
    ELSE <<Head(s)>> \o CollapseSpaces(Tail(s))

(***************************************************************************)
(* State.                                                                  *)
(***************************************************************************)
\* scrape_acm_proceedings (acm_scrape.py)
VARIABLES
    acmCall,            \* which call of scrape_acm_proceedings is running
    acm_dl_accessible,  \* closure cell of the running call
    blocked_count,      \* closure cell of the running call
    fpc,                \* paper -> position of its _fetch_badges task
    ftmp,               \* paper -> value of blocked_count its task loaded
    fresult,            \* paper -> what its task returned as badges
    acmHist             \* history of the running call (observation only)

\* the disk cache and the clock (sys_sec_scrape.py)
VARIABLES
    now,        \* time.time(), in days
    cache       \* (namespace, key) -> content of the cache file

\* download_file and the origin it fetches from (sys_sec_scrape.py)
VARIABLES
    srvBody,    \* the content at the origin
    srvEtags,   \* whether the origin's responses carry an ETag header
    lastGet,    \* observation of the last _cached_get call
    prevBody,   \* what the call before it returned
    changed     \* the origin's content changed since the last call returned

\* check_url_cached (sys_sec_scrape.py)
VARIABLES
    lastCheck   \* observation of the check_url_cached call just made

\* _normalise_badge (acm_scrape.py)
VARIABLES
    badge_pc,   \* "ready" before the call, "done" after it
    badge_text, \* the argument
    badge_out   \* the value returned

\* get_ae_results, the parsing of one downloaded document
\* (sys_sec_artifacts_results_scrape.py)
VARIABLES
    ae_pc,          \* "ready" before the document is parsed, "done" after
    content,        \* the document
    parsed_results, \* what the loop body left in parsed_results[conf_year]
    parserCalls     \* the table parsers invoked on the document

\* classify_member (generate_committee_stats.py)
VARIABLES
    cls_pc,          \* "build" before the index is built, "ready" before
                     \* the call, "done" after it
    university_info, \* the public list and the overrides appended to it
    name_index,      \* the dict _build_university_index returns, in key order
    affiliation,     \* the argument
    classified       \* the pair returned

\* _compute_recurring_members (generate_committee_stats.py)
VARIABLES
    agg_pc,       \* "loop" while records are processed, "done" after return
    member_map,   \* normalised name -> member record
    aggConf,      \* the conf_year whose members are being processed
    aggSeen,      \* the conf_years whose members have been processed
    aggLog,       \* bag of the records processed so far (observation only)
    aggLast,      \* the record processed last (observation only)
    members_list  \* the list returned

\* the extraction of the badges of one record (parse_html_results,
\* parse_markdown_table_results, scrape_paper_page, _scrape_acm_paper_badges,
\* the front matter)
VARIABLES
    ext_pc,       \* "ready" before the extraction, "done" after it
    ext_strategy, \* which code extracts
    ext_marks,    \* the badge marks of the source, in source order
    ext_badges    \* the badges of the record

\* the cache functions on one cache file of any content (sys_sec_scrape.py)
VARIABLES
    cf_pc,      \* "ready" before the call, "done" after it
    cache_file, \* the content of the file
    cf_call,    \* the function called
    cf_result   \* what it returned or raised, and the file it left

\* the batch operations get_ae_results
\* (sys_sec_artifacts_results_scrape.py) and get_committees
\* (sys_sec_committee_scrape.py)
VARIABLES
    batch_pc,      \* "download", "parse", "committees", "returned", "raised"
    batch_fn,      \* the operation called
    batch_i,       \* the conference the running loop is at
    batch_in,      \* conference -> what the network gave for it
    batch_results, \* get_ae_results: the results dict of the first loop
    batch_out      \* the dict under construction, returned at the end

\* the rate-limit path of _cached_get, cached_github_stats and
\* check_url_cached behind the retrying session (sys_sec_scrape.py)
VARIABLES
    rl_pc,    \* "ready" before the call, "done" after it
    rl_fn,    \* the function called
    rl_srv,   \* the status the server answers to its n-th request
    rl_reset, \* the X-RateLimit-Reset header of its responses (0: none)
    rl_out    \* what the call did: session calls, requests, sleeps, result

\* get_committee_for_conference, the parsing of one downloaded document
\* (sys_sec_committee_scrape.py)
VARIABLES
    cm_pc,     \* "ready" before the document is parsed, "done" after
    cm_doc,    \* the lines of the document
    cm_committee  \* the list returned

acmVars == <<acmCall, acm_dl_accessible, blocked_count, fpc, ftmp, fresult, acmHist>>
cacheVars == <<now, cache>>
httpVars == <<srvBody, srvEtags, lastGet, prevBody, changed>>
urlVars == <<lastCheck>>
badgeVars == <<badge_pc, badge_text, badge_out>>
aeVars == <<ae_pc, content, parsed_results, parserCalls>>
clsVars == <<cls_pc, university_info, name_index, affiliation, classified>>
aggVars == <<agg_pc, member_map, aggConf, aggSeen, aggLog, aggLast, members_list>>

extVars == <<ext_pc, ext_strategy, ext_marks, ext_badges>>

netVars == <<acmVars, cacheVars, httpVars, urlVars>>
pureVars == <<badgeVars, aeVars, clsVars, aggVars>>
cfVars == <<cf_pc, cache_file, cf_call, cf_result>>
batchVars == <<batch_pc, batch_fn, batch_i, batch_in, batch_results, batch_out>>
moreVars == <<extVars, cfVars, batchVars>>
rlVars == <<rl_pc, rl_fn, rl_srv, rl_reset, rl_out>>
cmVars == <<cm_pc, cm_doc, cm_committee>>
lateVars == <<rlVars, cmVars>>
vars == <<netVars, pureVars, moreVars, lateVars>>

\* what the actions of one subsystem leave alone
nonAcmVars == <<cacheVars, httpVars, urlVars, pureVars, moreVars, lateVars>>
nonHttpVars == <<acmVars, urlVars, pureVars, moreVars, lateVars>>
nonUrlVars == <<acmVars, httpVars, pureVars, moreVars, lateVars>>
nonBadgeVars == <<netVars, aeVars, clsVars, aggVars, moreVars, lateVars>>
nonAeVars == <<netVars, badgeVars, clsVars, aggVars, moreVars, lateVars>>
nonClsVars == <<netVars, badgeVars, aeVars, aggVars, moreVars, lateVars>>
nonAggVars == <<netVars, badgeVars, aeVars, clsVars, moreVars, lateVars>>
nonExtVars == <<netVars, pureVars, cfVars, batchVars, lateVars>>
nonCfVars == <<netVars, pureVars, extVars, batchVars, lateVars>>
nonBatchVars == <<netVars, pureVars, extVars, cfVars, lateVars>>
nonRlVars == <<netVars, pureVars, moreVars, cmVars>>
nonCmVars == <<netVars, pureVars, moreVars, rlVars>>

(***************************************************************************)
(* ACM DL circuit breaker: acm_scrape.scrape_acm_proceedings.              *)
(*                                                                         *)
(* One call of scrape_acm_proceedings owns the closure variables           *)
(* acm_dl_accessible and blocked_count and submits one _fetch_badges task  *)
(* per paper to a ThreadPoolExecutor of max_workers threads.  main() makes *)
(* the calls one after the other (one per conference and year).  The cells *)
(* are shared by the worker threads without a lock, so the statement       *)
(* blocked_count += 1 is a load followed by a store.                       *)
(***************************************************************************)
\* max_workers, the default size of the pool
MaxWorkers == 4
\* the number of failed lookups at which the source is marked blocked
BlockThreshold == 3
\* papers of one proceedings volume (length of the DBLP list)
NPapers == 4
\* consecutive calls of scrape_acm_proceedings in one run of main()
AcmCalls == {1, 2}
Papers == 1..NPapers

AcmHist0 ==
    [ sawFalse    |-> {},     \* tasks that read acm_dl_accessible = FALSE
      late        |-> FALSE,  \* a request went out after 3 lookups came back blocked
      cameBack    |-> 0,      \* lookups that came back blocked (HTTP 403)
      noneCount   |-> 0,      \* lookups that returned None, whatever the cause
      prevBlocked |-> FALSE,  \* an earlier call ended with the source blocked
      cachedSkipped |-> FALSE,  \* a task was skipped whose paper has a fresh
                                \* badge list in the acm_badges cache
      streak      |-> 0,      \* lookups blocked (HTTP 403) since the last
                              \* lookup that returned badges
      inARow      |-> FALSE ] \* the streak has reached the threshold

AcmInit ==
    /\ acmCall = 1
    /\ acm_dl_accessible = TRUE
    /\ blocked_count = 0
    /\ fpc = [p \in Papers |-> "queued"]
    /\ ftmp = [p \in Papers |-> 0]
    /\ fresult = [p \in Papers |-> "pending"]
    /\ acmHist = AcmHist0

AcmIdle ==
    /\ acmCall = 0
    /\ acm_dl_accessible = TRUE
    /\ blocked_count = 0
    /\ fpc = [p \in Papers |-> "done"]
    /\ ftmp = [p \in Papers |-> 0]
    /\ fresult = [p \in Papers |-> "pending"]
    /\ acmHist = AcmHist0

\* tasks a worker thread is running
ActiveTasks == {p \in Papers : fpc[p] \notin {"queued", "done"}}

\* line 258: if not acm_dl_accessible: return paper, []
ShouldSkip_NoCheck == FALSE
ShouldSkip == ~acm_dl_accessible

\* line 263: if blocked_count >= 3
ThresholdReached == blocked_count >= BlockThreshold

\* A free worker takes the next task from the pool's FIFO queue and runs
\* the first statement of _fetch_badges (lines 256-259).  The return of
\* line 259 comes before _scrape_acm_paper_badges and its cache lookup,
\* whatever the acm_badges cache holds for the paper.
FetchStart(p) ==
    /\ UNCHANGED nonAcmVars
    /\ fpc[p] = "queued"
    /\ \A q \in Papers : q < p => fpc[q] # "queued"
    /\ Cardinality(ActiveTasks) < MaxWorkers
    /\ IF ShouldSkip
       THEN /\ fpc' = [fpc EXCEPT ![p] = "done"]
            /\ fresult' = [fresult EXCEPT ![p] = "empty"]
            /\ \E cached \in BOOLEAN :
                 acmHist' = [acmHist EXCEPT
                    !.sawFalse = IF acm_dl_accessible THEN @ ELSE @ \cup {p},
                    !.cachedSkipped = @ \/ cached]
       ELSE /\ fpc' = [fpc EXCEPT ![p] = "scrape"]
            /\ acmHist' = [acmHist EXCEPT !.sawFalse =
                              IF acm_dl_accessible THEN @ ELSE @ \cup {p}]
            /\ UNCHANGED fresult
    /\ UNCHANGED <<acmCall, acm_dl_accessible, blocked_count, ftmp>>

\* _scrape_acm_paper_badges up to the request (lines 171-187): a paper
\* without DOI returns None, a fresh cached badge list is returned, and
\* otherwise (no entry, stale entry, or cached None) the request goes out.
\* A lookup that returns None goes on to line 262 and loads blocked_count.
ScrapeBegin(p) ==
    /\ UNCHANGED nonAcmVars
    /\ fpc[p] = "scrape"
    /\ \E kind \in {"nodoi", "cached", "miss"} :
         CASE kind = "nodoi" ->
                /\ fpc' = [fpc EXCEPT ![p] = "loaded"]
                /\ ftmp' = [ftmp EXCEPT ![p] = blocked_count]
                /\ acmHist' = [acmHist EXCEPT !.noneCount = @ + 1]
                /\ UNCHANGED fresult
           [] kind = "cached" ->
                /\ fpc' = [fpc EXCEPT ![p] = "done"]
                /\ fresult' = [fresult EXCEPT ![p] = "scraped"]
                /\ acmHist' = [acmHist EXCEPT !.streak = 0]
                /\ UNCHANGED ftmp
           [] OTHER ->
                /\ fpc' = [fpc EXCEPT ![p] = "inflight"]
                /\ acmHist' = [acmHist EXCEPT
                      !.late = @ \/ acmHist.cameBack >= BlockThreshold]
                /\ UNCHANGED <<ftmp, fresult>>
    /\ UNCHANGED <<acmCall, acm_dl_accessible, blocked_count>>

\* The response (lines 188-226): a request exception, a 403 and any other
\* non-200 status return None; a 200 returns the de-duplicated badges
\* found on the page (line 268-269: sleep, return paper, badges).
ScrapeEnd(p) ==
    /\ UNCHANGED nonAcmVars
    /\ fpc[p] = "inflight"
    /\ \E resp \in {"exception", "403", "non200", "200"} :
         IF resp = "200"
         THEN /\ fpc' = [fpc EXCEPT ![p] = "done"]
              /\ fresult' = [fresult EXCEPT ![p] = "scraped"]
              /\ acmHist' = [acmHist EXCEPT !.streak = 0]
              /\ UNCHANGED ftmp
         ELSE /\ fpc' = [fpc EXCEPT ![p] = "loaded"]
              /\ ftmp' = [ftmp EXCEPT ![p] = blocked_count]
              /\ acmHist' = [acmHist EXCEPT
                    !.noneCount = @ + 1,
                    !.cameBack = IF resp = "403" THEN @ + 1 ELSE @,
                    !.streak = IF resp = "403" THEN @ + 1 ELSE @,
                    !.inARow = @ \/ (resp = "403"
                                       /\ acmHist.streak + 1 >= BlockThreshold)]
              /\ UNCHANGED fresult
    /\ UNCHANGED <<acmCall, acm_dl_accessible, blocked_count>>

\* line 262, blocked_count += 1: the store of the value loaded plus one
CountStore(p) ==
    /\ UNCHANGED nonAcmVars
    /\ fpc[p] = "loaded"
    /\ blocked_count' = ftmp[p] + 1
    /\ ftmp' = [ftmp EXCEPT ![p] = 0]
    /\ fpc' = [fpc EXCEPT ![p] = "stored"]
    /\ UNCHANGED <<acmCall, acm_dl_accessible, fresult, acmHist>>

\* lines 263-267: mark the source blocked at the threshold, return (paper, [])
CountCheck(p) ==
    /\ UNCHANGED nonAcmVars
    /\ fpc[p] = "stored"
    /\ acm_dl_accessible' = IF ThresholdReached THEN FALSE ELSE acm_dl_accessible
    /\ fpc' = [fpc EXCEPT ![p] = "done"]
    /\ fresult' = [fresult EXCEPT ![p] = "empty"]
    /\ UNCHANGED <<acmCall, blocked_count, ftmp, acmHist>>

\* The pool has drained and main() calls scrape_acm_proceedings for the next
\* conference-year: fresh closure cells (lines 253-254), fresh tasks.
AcmNextCall ==
    /\ UNCHANGED nonAcmVars
    /\ acmCall \in AcmCalls
    /\ acmCall + 1 \in AcmCalls
    /\ \A p \in Papers : fpc[p] = "done"
    /\ acmCall' = acmCall + 1
    /\ acm_dl_accessible' = TRUE
    /\ blocked_count' = 0
    /\ fpc' = [p \in Papers |-> "queued"]
    /\ ftmp' = [p \in Papers |-> 0]
    /\ fresult' = [p \in Papers |-> "pending"]
    /\ acmHist' = [AcmHist0 EXCEPT
          !.prevBlocked = acmHist.prevBlocked \/ ~acm_dl_accessible]

AcmNext ==
    \/ \E p \in Papers : FetchStart(p)
    \/ \E p \in Papers : ScrapeBegin(p)
    \/ \E p \in Papers : ScrapeEnd(p)
    \/ \E p \in Papers : CountStore(p)
    \/ \E p \in Papers : CountCheck(p)
    \/ AcmNextCall

(***************************************************************************)
(* Disk cache: sys_sec_scrape._cache_path, _read_cache, _read_cache_entry, *)
(* _write_cache, _refresh_cache_ts.                                        *)
(*                                                                         *)
(* One file per (namespace, sha256(key)); its content is the JSON object   *)
(* {ts, body[, etag]}.  The clock `now` is time.time() in days.            *)
(***************************************************************************)
\* 30 days: conference listings and raw file downloads
CACHE_TTL == 30
\* 90 days: URL existence checks (positive)
CACHE_TTL_URL == 90
\* 7 days: URL non-existence checks
CACHE_TTL_URL_NEG == 7

\* Python's None (JSON null)
PyNone == "None"
\* the URL fetched; its entries live in the namespaces below
Url == "u"
Namespaces == {"http_get", "url_exists", "github_stats"}
CacheKeys == Namespaces \X {Url}

\* no file at _cache_path(key, namespace)
Absent == [kind |-> "absent", ts |-> 0, body |-> PyNone, etag |-> PyNone]

CacheIdle ==
    /\ now = 0
    /\ cache = [k \in CacheKeys |-> Absent]

\* line 71: time.time() - entry['ts'] < ttl
IsFresh_Short(e, ttl) == now - e.ts < ttl - 1
IsFresh(e, ttl) == now - e.ts < ttl

\* _read_cache(key, ttl, namespace): the body if the entry is fresh, else None
_read_cache(c, key, ttl, ns) ==
    LET e == c[<<ns, key>>]
    IN  IF e.kind = "ok" /\ IsFresh(e, ttl) THEN e.body ELSE PyNone

\* _read_cache_entry(key, namespace): the entry whatever its age (Absent for None)
_read_cache_entry(c, key, ns) ==
    LET e == c[<<ns, key>>]
    IN  IF e.kind = "ok" THEN e ELSE Absent

\* _write_cache(key, body, namespace, etag): the etag is stored only if truthy
_write_cache(c, key, body, ns, etag) ==
    [c EXCEPT ![<<ns, key>>] =
        [kind |-> "ok", ts |-> now, body |-> body, etag |-> etag]]

\* _refresh_cache_ts as it would be if it left the file as it is
_refresh_cache_ts_Keep(c, key, ns) == c

\* _refresh_cache_ts(key, namespace): touch ts, keep body and etag
_refresh_cache_ts(c, key, ns) ==
    LET e == c[<<ns, key>>]
    IN  IF e.kind = "ok" THEN [c EXCEPT ![<<ns, key>>].ts = now] ELSE c

(***************************************************************************)
(* download_file / _cached_get (sys_sec_scrape.py lines 273-319) against   *)
(* an origin server.                                                       *)
(***************************************************************************)
\* the clock stops here in the download specification
MaxTimeHttp == 32
\* document contents the origin can hold
Bodies == {"b1", "b2"}
\* the validator the origin sends for a body, when it sends ETags at all
EtagOf(b) == IF b = "b1" THEN "e1" ELSE "e2"
\* what one request can meet: a request exception, a 403 that carries a
\* rate-limit message, another error status, or normal service
Services == {"exception", "ratelimit403", "error", "normal"}

\* lastGet: what the call returned ("raised" for an exception), the requests
\* it sent, whether they carried If-None-Match, the status of the last
\* response, and what held when the call began: the body of a well-formed
\* entry younger than CACHE_TTL (freshBody, else None), whether the entry
\* held the origin's current content (inSync), and whether the origin had
\* changed since the call before (sinceChange).
NoGet == [result |-> PyNone, requests |-> 0, conditional |-> FALSE,
          status |-> "none", freshBody |-> PyNone, inSync |-> FALSE,
          hadEtag |-> FALSE, sinceChange |-> FALSE]

HttpIdle ==
    /\ srvBody = "b1"
    /\ srvEtags = FALSE
    /\ lastGet = NoGet
    /\ prevBody = PyNone
    /\ changed = FALSE

\* The response to a GET carrying If-None-Match: inm (PyNone: no header).
Respond(service, inm) ==
    CASE service = "exception"    -> [status |-> "exception", body |-> PyNone, etag |-> PyNone]
      [] service = "ratelimit403" -> [status |-> "ratelimit403", body |-> PyNone, etag |-> PyNone]
      [] service = "error"        -> [status |-> "error", body |-> PyNone, etag |-> PyNone]
      [] OTHER ->
           IF srvEtags /\ inm = EtagOf(srvBody)
           THEN [status |-> "304", body |-> PyNone, etag |-> EtagOf(srvBody)]
           ELSE [status |-> "200", body |-> srvBody,
                 etag |-> IF srvEtags THEN EtagOf(srvBody) ELSE PyNone]

\* lines 279-281: the fresh entry's body, or None
CachedBody(c, url) == _read_cache(c, url, CACHE_TTL, "http_get")

\* lines 287-289: the If-None-Match header sent, or None
IfNoneMatch_Never(c, url) == PyNone
IfNoneMatch(c, url) ==
    LET entry == _read_cache_entry(c, url, "http_get")
    IN  IF entry.kind = "ok" /\ entry.etag # PyNone THEN entry.etag ELSE PyNone

\* the observation of a call, taken from the state in which it begins
GetObserved(url) ==
    LET e == cache[<<"http_get", url>>]
    IN  [NoGet EXCEPT
           !.freshBody = IF e.kind = "ok" /\ now - e.ts < CACHE_TTL
                         THEN e.body ELSE PyNone,
           !.inSync = e.kind = "ok" /\ e.body = srvBody,
           !.hadEtag = e.kind = "ok" /\ e.etag # PyNone,
           !.sinceChange = changed]

\* _cached_get(url), the whole call; s1 and s2 are what the first request
\* and the retry after a rate-limit wait meet.
CachedGet(url, s1, s2) ==
    LET cached == CachedBody(cache, url)
        entry  == _read_cache_entry(cache, url, "http_get")
        inm    == IfNoneMatch(cache, url)
        first  == Respond(s1, inm)
        retry  == first.status = "ratelimit403"
        resp   == IF retry THEN Respond(s2, inm) ELSE first
        nreq   == IF retry THEN 2 ELSE 1
        obs    == GetObserved(url)
    IN  /\ prevBody' = lastGet.result
        /\ changed' = FALSE
        /\ IF cached # PyNone
           THEN \* line 281
                /\ lastGet' = [obs EXCEPT !.result = cached]
                /\ UNCHANGED cache
           ELSE IF resp.status = "304" /\ entry.kind = "ok"
           THEN \* lines 302-305
                /\ cache' = _refresh_cache_ts(cache, url, "http_get")
                /\ lastGet' = [obs EXCEPT !.result = entry.body,
                                  !.requests = nreq, !.status = "304",
                                  !.conditional = inm # PyNone]
           ELSE IF resp.status = "200"
           THEN \* lines 307-311
                /\ cache' = _write_cache(cache, url, resp.body, "http_get", resp.etag)
                /\ lastGet' = [obs EXCEPT !.result = resp.body,
                                  !.requests = nreq, !.status = "200",
                                  !.conditional = inm # PyNone]
           ELSE \* the exception of _session.get, or raise_for_status (line 307)
                /\ lastGet' = [obs EXCEPT !.result = "raised",
                                  !.requests = nreq, !.status = resp.status,
                                  !.conditional = inm # PyNone]
                /\ UNCHANGED cache

\* download_file(url) (line 318)
download_file ==
    /\ UNCHANGED nonHttpVars
    /\ \E s1, s2 \in Services : CachedGet(Url, s1, s2)
    /\ UNCHANGED <<now, srvBody, srvEtags>>

\* the maintainers of the origin publish another content
OriginUpdate ==
    /\ UNCHANGED nonHttpVars
    /\ \E b \in Bodies \ {srvBody} : srvBody' = b
    /\ changed' = TRUE
    /\ UNCHANGED <<now, cache, srvEtags, lastGet, prevBody>>

\* time passes between two runs of the pipeline
HttpTick ==
    /\ UNCHANGED nonHttpVars
    /\ \E d \in {1, CACHE_TTL - 1} :
         /\ now + d <= MaxTimeHttp
         /\ now' = now + d
    /\ UNCHANGED <<cache, httpVars>>

\* 30 days: GitHub, Zenodo and Figshare stats
CACHE_TTL_STATS == 30

\* lines 157-159: the If-None-Match header sent, or None
StatsIfNoneMatch(c, url) ==
    LET entry == _read_cache_entry(c, url, "github_stats")
    IN  IF entry.kind = "ok" /\ entry.etag # PyNone THEN entry.etag ELSE PyNone

\* the observation of a cached_github_stats call, as GetObserved
StatsObserved(url) ==
    LET e == cache[<<"github_stats", url>>]
    IN  [NoGet EXCEPT
           !.freshBody = IF e.kind = "ok" /\ now - e.ts < CACHE_TTL_STATS
                         THEN e.body ELSE PyNone,
           !.inSync = e.kind = "ok" /\ e.body = srvBody,
           !.hadEtag = e.kind = "ok" /\ e.etag # PyNone,
           !.sinceChange = changed]

\* cached_github_stats(url), the whole call (lines 137-196); the stats of
\* a repository are the content of the origin, and s1 and s2 are what the
\* first request and the retry after a rate-limit wait meet.
CachedGithubStats(url, s1, s2) ==
    LET cached == _read_cache(cache, url, CACHE_TTL_STATS, "github_stats")
        entry  == _read_cache_entry(cache, url, "github_stats")
        inm    == StatsIfNoneMatch(cache, url)
        first  == Respond(s1, inm)
        retry  == first.status = "ratelimit403"
        resp   == IF retry THEN Respond(s2, inm) ELSE first
        nreq   == IF retry THEN 2 ELSE 1
        obs    == StatsObserved(url)
    IN  /\ prevBody' = lastGet.result
        /\ changed' = FALSE
        /\ IF cached # PyNone
           THEN \* line 146
                /\ lastGet' = [obs EXCEPT !.result = cached]
                /\ UNCHANGED cache
           ELSE IF resp.status = "exception"
           THEN \* the exception of _session.get leaves the function
                /\ lastGet' = [obs EXCEPT !.result = "raised",
                                  !.requests = nreq, !.status = resp.status,
                                  !.conditional = inm # PyNone]
                /\ UNCHANGED cache
           ELSE IF resp.status = "304" /\ entry.kind = "ok"
           THEN \* lines 171-174
                /\ cache' = _refresh_cache_ts(cache, url, "github_stats")
                /\ lastGet' = [obs EXCEPT !.result = entry.body,
                                  !.requests = nreq, !.status = "304",
                                  !.conditional = inm # PyNone]
           ELSE IF resp.status = "200"
           THEN \* lines 175-191
                /\ cache' = _write_cache(cache, url, resp.body,
                                         "github_stats", resp.etag)
                /\ lastGet' = [obs EXCEPT !.result = resp.body,
                                  !.requests = nreq, !.status = "200",
                                  !.conditional = inm # PyNone]
           ELSE \* lines 192-196: None is cached and returned
                /\ cache' = _write_cache(cache, url, PyNone,
                                         "github_stats", PyNone)
                /\ lastGet' = [obs EXCEPT !.result = PyNone,
                                  !.requests = nreq, !.status = resp.status,
                                  !.conditional = inm # PyNone]

\* cached_github_stats(url)
cached_github_stats ==
    /\ UNCHANGED nonHttpVars
    /\ \E s1, s2 \in Services : CachedGithubStats(Url, s1, s2)
    /\ UNCHANGED <<now, srvBody, srvEtags>>

\* The two functions keep their entries in files of their own namespaces,
\* so a run exercises one of them on the URL: the files of the other stay
\* as they were.
GetCall == download_file /\ cache[<<"github_stats", Url>>] = Absent
StatsCall == cached_github_stats /\ cache[<<"http_get", Url>>] = Absent

\* the clock stops here in the revalidation specification
MaxTimeReval == 61
\* time passes between two runs: a day less than the TTL, or the TTL
RevalTick ==
    /\ UNCHANGED nonHttpVars
    /\ \E d \in {CACHE_TTL - 1, CACHE_TTL} :
         /\ now + d <= MaxTimeReval
         /\ now' = now + d
    /\ UNCHANGED <<cache, httpVars>>

RevalNext ==
    \/ GetCall
    \/ StatsCall
    \/ OriginUpdate
    \/ RevalTick

HttpInit ==
    /\ now = 0
    /\ cache = [k \in CacheKeys |-> Absent]
    /\ srvBody \in Bodies
    /\ srvEtags \in BOOLEAN
    /\ lastGet = NoGet
    /\ prevBody = PyNone
    /\ changed = FALSE

HttpNext ==
    \/ download_file
    \/ OriginUpdate
    \/ HttpTick

(***************************************************************************)
(* check_url_cached (sys_sec_scrape.py lines 109-135).  The body of a      *)
(* url_exists entry is the JSON value true or false.                       *)
(***************************************************************************)
\* the clock stops here in the URL-check specification
MaxTimeUrl == 92
\* the ttl arguments callers pass; CACHE_TTL_URL is the default
TtlArgs == {1, CACHE_TTL_URL_NEG, CACHE_TTL_URL_NEG + 1, CACHE_TTL_URL}
\* what a HEAD request can meet
HeadServices == {"200", "429", "404", "exception"}
\* the first response and, after a 429, the response to the retry
HeadOutcomes ==
    {<<s, "none">> : s \in HeadServices \ {"429"}}
       \cup {<<"429", s>> : s \in HeadServices}

NoCheck == [ttl |-> 0, age |-> 0, body |-> PyNone, requests |-> 0, result |-> PyNone]

UrlIdle == lastCheck = NoCheck

\* lines 116-122: the answer served from the cache, or None when the
\* request has to be made
UrlCachedAnswer_OneTtl(c, url, ttl) ==
    LET cached == _read_cache(c, url, ttl, "url_exists")
    IN  IF cached \in {"true", "false"} THEN cached ELSE PyNone
UrlCachedAnswer(c, url, ttl) ==
    LET cached     == _read_cache(c, url, ttl, "url_exists")
        cached_neg == _read_cache(c, url, CACHE_TTL_URL_NEG, "url_exists")
    IN  IF cached = "true" THEN "true"
        ELSE IF cached_neg = "false" THEN "false"
        ELSE PyNone

\* lines 124-132: exists, from the first HEAD response and the one after
\* the wait that follows a 429
HeadExists(s1, s2) ==
    IF s1 = "429" THEN s2 = "200" ELSE s1 = "200"

\* check_url_cached(url, ttl), the whole call
check_url_cached(url, ttl, s1, s2) ==
    LET e      == cache[<<"url_exists", url>>]
        answer == UrlCachedAnswer(cache, url, ttl)
        exists == IF HeadExists(s1, s2) THEN "true" ELSE "false"
        obs    == [NoCheck EXCEPT !.ttl = ttl,
                      !.age = IF e.kind = "ok" THEN now - e.ts ELSE 0,
                      !.body = IF e.kind = "ok" THEN e.body ELSE PyNone]
    IN  IF answer # PyNone
        THEN /\ lastCheck' = [obs EXCEPT !.result = answer]
             /\ UNCHANGED cache
        ELSE /\ cache' = _write_cache(cache, url, exists, "url_exists", PyNone)
             /\ lastCheck' = [obs EXCEPT !.result = exists,
                                 !.requests = IF s1 = "429" THEN 2 ELSE 1]

CheckUrl ==
    /\ UNCHANGED nonUrlVars
    /\ \E ttl \in TtlArgs, o \in HeadOutcomes :
          check_url_cached(Url, ttl, o[1], o[2])
    /\ UNCHANGED now

\* time passes between two runs of the URL check
UrlTick ==
    /\ UNCHANGED nonUrlVars
    /\ \E d \in {1, CACHE_TTL_URL_NEG - 1, CACHE_TTL_URL - 1} :
         /\ now + d <= MaxTimeUrl
         /\ now' = now + d
    /\ lastCheck' = NoCheck
    /\ UNCHANGED cache

UrlInit ==
    /\ now = 0
    /\ cache = [k \in CacheKeys |-> Absent]
    /\ lastCheck = NoCheck

UrlNext ==
    \/ CheckUrl
    \/ UrlTick

(***************************************************************************)
(* Badge names: acm_scrape._BADGE_MAP and _normalise_badge (lines 72-96).  *)
(***************************************************************************)
Available == <<"a", "v", "a", "i", "l", "a", "b", "l", "e">>
Functional == <<"f", "u", "n", "c", "t", "i", "o", "n", "a", "l">>
Reusable == <<"r", "e", "u", "s", "a", "b", "l", "e">>
Reproduced == <<"r", "e", "p", "r", "o", "d", "u", "c", "e", "d">>

_BADGE_MAP ==
    (<<"a", "r", "t", "i", "f", "a", "c", "t", "s", "_", "a", "v", "a", "i",
     "l", "a", "b", "l", "e">>
        :> Available) @@
    (<<"a", "r", "t", "i", "f", "a", "c", "t", "s", " ", "a", "v", "a", "i",
     "l", "a", "b", "l", "e">>
        :> Available) @@
    (<<"a", "v", "a", "i", "l", "a", "b", "l", "e">>
        :> Available) @@
    (<<"a", "r", "t", "i", "f", "a", "c", "t", "s", "_", "e", "v", "a", "l",
     "u", "a", "t", "e", "d", "_", "f", "u", "n", "c", "t", "i", "o",
     "n", "a", "l">>
        :> Functional) @@
    (<<"a", "r", "t", "i", "f", "a", "c", "t", "s", " ", "e", "v", "a", "l",
     "u", "a", "t", "e", "d", " ", "f", "u", "n", "c", "t", "i", "o",
     "n", "a", "l">>
        :> Functional) @@
    (<<"a", "r", "t", "i", "f", "a", "c", "t", "s", "_", "e", "v", "a", "l",
     "u", "a", "t", "e", "d">>
        :> Functional) @@
    (<<"f", "u", "n", "c", "t", "i", "o", "n", "a", "l">>
        :> Functional) @@
    (<<"a", "r", "t", "i", "f", "a", "c", "t", "s", "_", "e", "v", "a", "l",
     "u", "a", "t", "e", "d", "_", "r", "e", "u", "s", "a", "b", "l",
     "e">>
        :> Reusable) @@
    (<<"a", "r", "t", "i", "f", "a", "c", "t", "s", " ", "e", "v", "a", "l",
     "u", "a", "t", "e", "d", " ", "r", "e", "u", "s", "a", "b", "l",
     "e">>
        :> Reusable) @@
    (<<"r", "e", "u", "s", "a", "b", "l", "e">>
        :> Reusable) @@
    (<<"r", "e", "s", "u", "l", "t", "s", "_", "r", "e", "p", "r", "o", "d",
     "u", "c", "e", "d">>
        :> Reproduced) @@
    (<<"r", "e", "s", "u", "l", "t", "s", " ", "r", "e", "p", "r", "o", "d",
     "u", "c", "e", "d">>
        :> Reproduced) @@
    (<<"r", "e", "p", "r", "o", "d", "u", "c", "e", "d">>
        :> Reproduced) @@
    (<<"r", "e", "s", "u", "l", "t", "s", "_", "r", "e", "p", "l", "i", "c",
     "a", "t", "e", "d">>
        :> Reproduced) @@
    (<<"r", "e", "s", "u", "l", "t", "s", " ", "r", "e", "p", "l", "i", "c",
     "a", "t", "e", "d">>
        :> Reproduced) @@
    (<<"r", "e", "p", "l", "i", "c", "a", "t", "e", "d">>
        :> Reproduced)

\* line 94: lower-case, drop every character but a-z and the space, strip
\* line 95: collapse runs of whitespace
BadgeKey(text) ==
    LET kept == SelectSeq(lower(text),
                          LAMBDA c : c \in Range(LowerCase) \cup {" "})
    IN  CollapseSpaces(strip(kept, Whitespace))

\* line 96 as it would be if an unknown name were returned as it came
_normalise_badge_PassThrough(text) ==
    LET key == BadgeKey(text)
    IN  IF key \in DOMAIN _BADGE_MAP THEN _BADGE_MAP[key] ELSE text

\* _normalise_badge(text): _BADGE_MAP.get(key, key)
_normalise_badge(text) ==
    LET key == BadgeKey(text)
    IN  IF key \in DOMAIN _BADGE_MAP THEN _BADGE_MAP[key] ELSE key

\* the longest generated badge text
BadgeMaxLen == 3
\* the characters of the generated badge texts
BadgeChars == {"A", "a", "_", " ", "!"}
\* badge texts as the sources spell them
BadgeSpellings ==
    { <<"A", "r", "t", "i", "f", "a", "c", "t", "s", " ", "A", "v", "a",
        "i", "l", "a", "b", "l", "e">>,
      <<"a", "r", "t", "i", "f", "a", "c", "t", "s", "_", "a", "v", "a",
        "i", "l", "a", "b", "l", "e">>,
      <<"a", "v", "a", "i", "l", "a", "b", "l", "e">>,
      <<"A", "v", "a", "i", "l", "a", "b", "l", "e">>,
      <<"a", "r", "t", "i", "f", "a", "c", "t", "s", " ", "a", "v", "a",
        "i", "l", "a", "b", "l", "e">>,
      <<" ", " ", "A", "r", "t", "i", "f", "a", "c", "t", "s", " ", " ",
          " ", "A", "v", "a", "i", "l", "a", "b", "l", "e", " ">>,
      <<"R", "e", "s", "u", "l", "t", "s", " ", "R", "e", "p", "r", "o",
        "d", "u", "c", "e", "d">>,
      <<"r", "e", "s", "u", "l", "t", "s", "_", "r", "e", "p", "r", "o",
        "d", "u", "c", "e", "d">>,
      <<"R", "e", "u", "s", "a", "b", "l", "e">>,
      <<"G", "o", "l", "d", " ", "S", "t", "a", "r", "!">>,
      <<"A", "r", "t", "i", "f", "a", "c", "t", "s", " ", "E", "v", "a",
        "l", "u", "a", "t", "e", "d", " ", "EN_DASH", " ", "F", "u",
        "n", "c", "t", "i", "o", "n", "a", "l">> }
BadgeTexts == BadgeSpellings \cup SeqsUpTo(BadgeChars, BadgeMaxLen)

BadgeIdle ==
    /\ badge_pc = "idle"
    /\ badge_text = <<>>
    /\ badge_out = <<>>

BadgeInit ==
    /\ badge_pc = "ready"
    /\ badge_text \in BadgeTexts
    /\ badge_out = <<>>

NormaliseBadge ==
    /\ UNCHANGED nonBadgeVars
    /\ badge_pc = "ready"
    /\ badge_out' = _normalise_badge(badge_text)
    /\ badge_pc' = "done"
    /\ UNCHANGED badge_text

BadgeNext == NormaliseBadge

(***************************************************************************)
(* Results pages: sys_sec_artifacts_results_scrape.get_ae_results, the     *)
(* body of its loop over the downloaded documents (lines 192-227), and the *)
(* two table parsers it falls back to.                                     *)
(*                                                                         *)
(* A document is described by what the code finds in it: what              *)
(* yaml.safe_load makes of the text between the first two --- lines        *)
(* (field fm), the artifacts of that front matter, and the rows of its     *)
(* table, which is made of <tr> elements ("html") or of | lines            *)
(* ("markdown").                                                           *)
(***************************************************************************)
\* the longest artifacts list of a front matter
MaxArtifacts == 2
\* the most rows of a table
MaxRows == 1

Foo == <<"F", "o", "o">>
FooDot == <<"F", "o", "o", ".">>
BarDots == <<"B", "a", "r", ".", ".">>
PaperTitle == <<"P", "a", "p", "e", "r", " ", "T", "i", "t", "l", "e">>
\* titles of front-matter entries, as the YAML gives them
FmTitles == {Foo, FooDot, BarDots}
\* the text of the first cell of a table row
CellTitles == {Foo, <<" ">> \o FooDot \o <<" ">>, PaperTitle, <<" ">>}

FmArtifacts == [title : FmTitles]
\* link: the title is written as a link; cells: the cells of the row;
\* data: the row's second cell holds a badge or its third cell a link
TableRows ==
    [title : CellTitles, link : BOOLEAN, cells : {1, 3}, data : BOOLEAN]

\* "none": no --- line; "yaml_error": safe_load raises YAMLError;
\* "empty": the front matter parses to None; "artifacts": a mapping with an
\* artifacts list; "artifacts_null": a mapping whose artifacts key has no
\* value; "issues": a mapping with issues, content.artifacts being their
\* artifacts in order; "other": a mapping with neither key
FrontMatters ==
    {"none", "yaml_error", "empty", "artifacts", "artifacts_null",
     "issues", "other"}
Contents ==
    { c \in [fm : FrontMatters,
             artifacts : SeqsUpTo(FmArtifacts, MaxArtifacts),
             table : {"none", "html", "markdown"},
             rows : SeqsUpTo(TableRows, MaxRows)] :
        /\ c.fm \notin {"artifacts", "issues"} => c.artifacts = <<>>
        /\ c.table = "none" => c.rows = <<>> }

NoContent == [fm |-> "none", artifacts |-> <<>>, table |-> "none", rows |-> <<>>]
\* conf_year is not a key of parsed_results
NotParsed == [kind |-> "absent", records |-> <<>>]

\* a row gives a record if it has a title and a badge or a link
RowHasData(row) == row.cells >= 2 /\ row.data

\* parse_html_results, lines 26-85: one row
HtmlRowRecord(row) ==
    LET title == strip(row.title, Whitespace)
    IN  IF row.cells < 2 THEN <<>>
        ELSE IF title = <<>> \/ lower(title) = lower(PaperTitle) THEN <<>>
        ELSE IF RowHasData(row) THEN <<[title |-> title]>>
        ELSE <<>>

\* parse_markdown_table_results, lines 100-155: one line
MarkdownRowRecord(row) ==
    LET title == strip(row.title, Whitespace)
    IN  IF row.cells < 2 THEN <<>>
        ELSE IF ~row.link THEN <<>>
        ELSE IF title = <<>> \/ lower(title) = lower(PaperTitle) THEN <<>>
        ELSE IF RowHasData(row) THEN <<[title |-> title]>>
        ELSE <<>>

parse_html_results(c) ==
    LET rows == IF c.table = "html"
                THEN SelectSeq(c.rows, LAMBDA r : HtmlRowRecord(r) # <<>>)
                ELSE <<>>
    IN  [i \in 1..Len(rows) |-> HtmlRowRecord(rows[i])[1]]

parse_markdown_table_results(c) ==
    LET rows == IF c.table = "markdown"
                THEN SelectSeq(c.rows, LAMBDA r : MarkdownRowRecord(r) # <<>>)
                ELSE <<>>
    IN  [i \in 1..Len(rows) |-> MarkdownRowRecord(rows[i])[1]]

\* lines 217-227: the table parsers, the second only if the first found
\* nothing
TableFallback(c) ==
    LET html      == parse_html_results(c)
        artifacts == IF html # <<>> THEN html
                     ELSE parse_markdown_table_results(c)
    IN  [result |-> IF artifacts # <<>>
                    THEN [kind |-> "records", records |-> artifacts]
                    ELSE NotParsed,
         calls  |-> IF html # <<>> THEN {"parse_html_results"}
                    ELSE {"parse_html_results",
                          "parse_markdown_table_results"}]

\* lines 201 and 207-209 as they would be if titles were canonicalised
FrontMatterArtifacts_Canonical(c) ==
    [i \in 1..Len(c.artifacts) |->
        [c.artifacts[i] EXCEPT !.title = rstrip(@, {"."})]]

\* lines 201 and 207-209: the artifacts of the front matter, as parsed
FrontMatterArtifacts(c) == c.artifacts

\* the loop body as it would be without the continue of line 203
ParseDocument_NoContinue(c) ==
    LET table == TableFallback(c)
    IN  IF c.fm = "artifacts" /\ table.result.kind = "absent"
        THEN [result |-> [kind |-> "records",
                          records |-> FrontMatterArtifacts(c)],
              calls  |-> table.calls]
        ELSE table

\* lines 195-227: the loop body for one document
ParseDocument(c) ==
    IF c.fm = "artifacts"
    THEN [result |-> [kind |-> "records", records |-> FrontMatterArtifacts(c)],
          calls  |-> {}]
    ELSE IF c.fm = "artifacts_null"
    THEN \* parsed_results[conf_year] = None, then len(None) raises
         [result |-> [kind |-> "TypeError", records |-> <<>>], calls |-> {}]
    ELSE IF c.fm = "issues" /\ FrontMatterArtifacts(c) # <<>>
    THEN [result |-> [kind |-> "records", records |-> FrontMatterArtifacts(c)],
          calls  |-> {}]
    ELSE TableFallback(c)

AeIdle ==
    /\ ae_pc = "idle"
    /\ content = NoContent
    /\ parsed_results = NotParsed
    /\ parserCalls = {}

AeInit ==
    /\ ae_pc = "ready"
    /\ content \in Contents
    /\ parsed_results = NotParsed
    /\ parserCalls = {}

ParseContent ==
    /\ UNCHANGED nonAeVars
    /\ ae_pc = "ready"
    /\ parsed_results' = ParseDocument(content).result
    /\ parserCalls' = ParseDocument(content).calls
    /\ ae_pc' = "done"
    /\ UNCHANGED content

AeNext == ParseContent

(***************************************************************************)
(* Affiliations: generate_committee_stats.classify_member (lines 243-270). *)
(* fuzz.ratio is thefuzz's: the similarity 2*M/T of the two strings in     *)
(* percent, rounded to an integer, where T is the sum of their lengths and *)
(* M the length of their longest common subsequence.                       *)
(***************************************************************************)
\* the longest generated affiliation
AffMaxLen == 4
\* the characters of the generated affiliations
AffChars == {"n", "u", "s", "t", "N", " "}
Affiliations == SeqsUpTo(AffChars, AffMaxLen)

\* the institutions of the generated lists, and how their names are spelled
SNU == [name |-> "snu", country |-> "South Korea"]
NTU == [name |-> "ntu", country |-> "Singapore"]
NUS == [name |-> "nus", country |-> "Singapore"]
NUSpaced == [name |-> "n u s", country |-> "Singapore"]
NUPublic == [name |-> "N u", country |-> "Norway"]
NUOverride == [name |-> "n u", country |-> "Nauru"]
USOverride == [name |-> "u s", country |-> "United States"]
NameChars(name) ==
    CASE name = "snu" -> <<"s", "n", "u">>
      [] name = "ntu" -> <<"n", "t", "u">>
      [] name = "nus" -> <<"n", "u", "s">>
      [] name = "n u s" -> <<"n", " ", "u", " ", "s">>
      [] name = "N u" -> <<"N", " ", "u">>
      [] name = "n u" -> <<"n", " ", "u">>
      [] name = "u s" -> <<"u", " ", "s">>

\* the most entries of the public list, and of the overrides
MaxUniversities == 2
PublicPool == {SNU, NUPublic, NUSpaced}
OverridePool == {NUS, NUOverride, USOverride}
UniversityInfos ==
    [public : SeqsUpTo(PublicPool, MaxUniversities),
     overrides : SeqsUpTo(OverridePool, MaxUniversities)]
NoUniversities == [public |-> <<>>, overrides |-> <<>>]
\* the lists the classifier is exercised on
SampleUniversities == [public |-> <<SNU, NTU>>, overrides |-> <<NUS>>]

RECURSIVE split(_, _)
\* s.split(sep), sep one character
split(s, sep) ==
    IF \A i \in 1..Len(s) : s[i] # sep THEN <<s>>
    ELSE LET i == CHOOSE k \in 1..Len(s) :
                    s[k] = sep /\ \A m \in 1..(k - 1) : s[m] # sep
         IN  <<SubSeq(s, 1, i - 1)>> \o split(SubSeq(s, i + 1, Len(s)), sep)

RECURSIVE join(_, _)
\* sep.join(parts)
join(parts, sep) ==
    IF parts = <<>> THEN <<>>
    ELSE IF Len(parts) = 1 THEN parts[1]
    ELSE parts[1] \o <<sep>> \o join(Tail(parts), sep)

\* lines 221-229: the keys under which one entry is inserted, in order
IndexKeys(uni) ==
    LET name     == NameChars(uni.name)
        splitted == split(name, " ")
        n        == Len(splitted)
    IN  <<lower(name)>>
        \o (IF n > 1 THEN [i \in 1..n |-> lower(splitted[i])] ELSE <<>>)
        \o (IF n > 2
            THEN [s_cnt \in 1..(n - 2) |->
                    lower(join(SubSeq(splitted, s_cnt + 1, n), " "))]
            ELSE <<>>)

HasKey(d, k) == \E i \in 1..Len(d) : d[i].key = k

\* name_index[k] = v as it would be if the first binding of a key were kept
DictSet_KeepFirst(d, k, v) ==
    IF HasKey(d, k) THEN d ELSE Append(d, [key |-> k, uni |-> v])

\* name_index[k] = v: a key that is bound keeps its place and takes the
\* new value
DictSet(d, k, v) ==
    IF HasKey(d, k)
    THEN [i \in 1..Len(d) |->
            IF d[i].key = k THEN [key |-> k, uni |-> v] ELSE d[i]]
    ELSE Append(d, [key |-> k, uni |-> v])

RECURSIVE InsertKeys(_, _, _)
InsertKeys(d, keys, uni) ==
    IF keys = <<>> THEN d
    ELSE InsertKeys(DictSet(d, Head(keys), uni), Tail(keys), uni)

RECURSIVE InsertAll(_, _)
\* lines 220-229: the loop over university_info
InsertAll(d, unis) ==
    IF unis = <<>> THEN d
    ELSE InsertAll(InsertKeys(d, IndexKeys(Head(unis)), Head(unis)), Tail(unis))

\* _build_university_index, lines 101-231: the overrides are appended to
\* the public list (line 108), then every entry is inserted
_build_university_index(info) == InsertAll(<<>>, info.public \o info.overrides)

NoUni == [name |-> PyNone, country |-> PyNone]

IsPrefix(p, s) == Len(p) <= Len(s) /\ SubSeq(s, 1, Len(p)) = p

\* the entries whose key starts with aff_lower, in the order of the dict
PrefixMatches(aff_lower) ==
    SelectSeq(name_index, LAMBDA e : IsPrefix(aff_lower, e.key))

RECURSIVE TrieFirst(_)
\* prefix_tree.values(prefix=aff_lower)[0], given that a key starts with
\* aff_lower: the trie is filled in the order of the dict, a node yields
\* its own value before those of its children, and its children are in
\* the order in which they were made
TrieFirst(prefix) ==
    LET under == PrefixMatches(prefix)
    IN  IF HasKey(under, prefix)
        THEN (CHOOSE e \in Range(under) : e.key = prefix).uni
        ELSE TrieFirst(Append(prefix, under[1].key[Len(prefix) + 1]))

RECURSIVE LCS(_, _)
\* length of the longest common subsequence
LCS(a, b) ==
    IF a = <<>> \/ b = <<>> THEN 0
    ELSE IF Head(a) = Head(b) THEN 1 + LCS(Tail(a), Tail(b))
    ELSE LET x == LCS(Tail(a), b)
             y == LCS(a, Tail(b))
         IN  IF x >= y THEN x ELSE y

\* round(n / d), halves to the even neighbour
PyRound(n, d) ==
    LET q == n \div d
        r == n % d
    IN  IF 2 * r > d THEN q + 1
        ELSE IF 2 * r < d THEN q
        ELSE IF q % 2 = 0 THEN q ELSE q + 1

\* fuzz.ratio(s1, s2)
fuzz_ratio(s1, s2) ==
    IF s1 = <<>> \/ s2 = <<>> THEN 0
    ELSE PyRound(200 * LCS(s1, s2), Len(s1) + Len(s2))

RECURSIVE FuzzyBest(_, _, _)
\* lines 259-265: the loop over name_index from entry i on, with the best
\* so far
FuzzyBest(aff_lower, i, best) ==
    IF i > Len(name_index) THEN best
    ELSE LET ratio == fuzz_ratio(name_index[i].key, aff_lower)
         IN  IF ratio > best.ratio
             THEN FuzzyBest(aff_lower, i + 1,
                            [ratio |-> ratio, match |-> name_index[i].uni])
             ELSE FuzzyBest(aff_lower, i + 1, best)

\* line 267 as it would be with the threshold included
AcceptFuzzy_AtOrAbove(best) == best.ratio >= 80 /\ best.match # NoUni

\* line 267: best_ratio > 80 and best_match
AcceptFuzzy(best) == best.ratio > 80 /\ best.match # NoUni

\* lines 256 and 268 as they would be if only the country were returned
Resolved_CountryOnly(uni) == [name |-> PyNone, country |-> uni.country]

\* lines 256 and 268: the pair returned for an entry of the index,
\* uni['country'] and uni.get('name', affiliation); every entry has a name
Resolved(uni) == [name |-> uni.name, country |-> uni.country]

\* classify_member(affiliation, prefix_tree, name_index)
classify_member(aff) ==
    LET aff_lower == strip(lower(aff), Whitespace)
        matches   == PrefixMatches(aff_lower)
        best      == FuzzyBest(aff_lower, 1, [ratio |-> 0, match |-> NoUni])
    IN  IF aff_lower = <<>> THEN NoUni
        ELSE IF matches # <<>> THEN Resolved(TrieFirst(aff_lower))
        ELSE IF AcceptFuzzy(best) THEN Resolved(best.match)
        ELSE NoUni

ClsIdle ==
    /\ cls_pc = "idle"
    /\ university_info = NoUniversities
    /\ name_index = <<>>
    /\ affiliation = <<>>
    /\ classified = NoUni

\* the index has been built, of the sample lists
ClsInit ==
    /\ cls_pc = "ready"
    /\ university_info = SampleUniversities
    /\ name_index = _build_university_index(university_info)
    /\ affiliation \in Affiliations
    /\ classified = NoUni

ClassifyMember ==
    /\ UNCHANGED nonClsVars
    /\ cls_pc = "ready"
    /\ classified' = classify_member(affiliation)
    /\ cls_pc' = "done"
    /\ UNCHANGED <<university_info, name_index, affiliation>>

ClsNext == ClassifyMember

\* the affiliations looked up in a generated index: the keys of its
\* entries, in either case, and a text that is no key
IndexAffiliations ==
    UNION {Range(IndexKeys(uni)) : uni \in PublicPool \cup OverridePool}
    \cup {<<"N", " ", "U">>, <<"N">>, <<"t">>}

\* the index is to be built, of any lists
IndexInit ==
    /\ cls_pc = "build"
    /\ university_info \in UniversityInfos
    /\ name_index = <<>>
    /\ affiliation \in IndexAffiliations
    /\ classified = NoUni

\* name_index = _build_university_index() (line 286)
BuildIndex ==
    /\ UNCHANGED nonClsVars
    /\ cls_pc = "build"
    /\ name_index' = _build_university_index(university_info)
    /\ cls_pc' = "ready"
    /\ UNCHANGED <<university_info, affiliation, classified>>

IndexNext == BuildIndex \/ ClassifyMember

(***************************************************************************)
(* Committee members: generate_committee_stats._normalize_name (lines      *)
(* 409-424) and _compute_recurring_members (lines 427-560), up to the      *)
(* combined list it returns.                                               *)
(***************************************************************************)
\* the most committee records of one call
MaxRecords == 3

\* unicodedata.normalize('NFKD', c), one character
NFKD(c) ==
    IF c = "a_acute" THEN <<"a", "ACUTE">>
    ELSE IF c = "A_ACUTE" THEN <<"A", "ACUTE">>
    ELSE <<c>>

RECURSIVE Decompose(_)
\* unicodedata.normalize('NFKD', s)
Decompose(s) ==
    IF s = <<>> THEN <<>> ELSE NFKD(Head(s)) \o Decompose(Tail(s))

\* unicodedata.combining(c) # 0
combining(c) == c = "ACUTE"

\* _normalize_name as it would be without line 421
_normalize_name_KeepPeriods(name) ==
    LET lowered == lower(strip(name, Whitespace))
        bare    == SelectSeq(Decompose(lowered), LAMBDA c : ~combining(c))
    IN  strip(CollapseSpaces(bare), Whitespace)

\* _normalize_name(name)
_normalize_name(name) ==
    LET lowered  == lower(strip(name, Whitespace))
        bare     == SelectSeq(Decompose(lowered), LAMBDA c : ~combining(c))
        noperiod == SelectSeq(bare, LAMBDA c : c # ".")
    IN  strip(CollapseSpaces(noperiod), Whitespace)

\* the keys of all_results
ConfYears == {"osdi2021", "eurosys2022", "sosp2023", "ndss2023", "woot"}

\* _extract_conf_year on these keys; year 0 stands for None, which
\* `if year:` treats alike
_extract_conf_year(conf_year) ==
    CASE conf_year = "osdi2021" -> [conf |-> "OSDI", year |-> 2021]
      [] conf_year = "eurosys2022" -> [conf |-> "EUROSYS", year |-> 2022]
      [] conf_year = "sosp2023" -> [conf |-> "SOSP", year |-> 2023]
      [] conf_year = "ndss2023" -> [conf |-> "NDSS", year |-> 2023]
      [] OTHER                  -> [conf |-> "WOOT", year |-> 0]

\* conf_to_area.get(conf_year, 'unknown'), conf_to_area being _conf_area on
\* the keys of all_results
conf_to_area(conf_year) ==
    CASE conf_year \in {"osdi2021", "eurosys2022", "sosp2023"} -> "systems"
      [] conf_year \in {"ndss2023", "woot"} -> "security"
      [] OTHER -> "unknown"

ASmithDot == <<"A", ".", " ", "S", "m", "i", "t", "h">>
ASmith == <<"A", " ", "S", "m", "i", "t", "h">>
ASmithVariant == <<"a_acute", " ", " ", "S", "M", "I", "T", "H", " ">>
BSmith == <<"B", " ", "S", "m", "i", "t", "h">>
Blank == <<" ">>
AffX == <<"X">>
AffY == <<"*", "Y", "*">>

\* the committee records of the pages
Members ==
    { [name |-> ASmithDot, role |-> "member", affiliation |-> AffX],
      [name |-> ASmith, role |-> "member", affiliation |-> AffY],
      [name |-> ASmith, role |-> "member", affiliation |-> <<>>],
      [name |-> ASmithVariant, role |-> "chair", affiliation |-> AffX],
      [name |-> BSmith, role |-> "member", affiliation |-> AffY],
      [name |-> BSmith, role |-> "chair", affiliation |-> <<>>],
      [name |-> Blank, role |-> "member", affiliation |-> AffX] }

EmptyMap == [k \in {} |-> 0]

\* lines 462-485: the record of a new member
NewMember(name_raw, affil) ==
    [name |-> name_raw, affiliation |-> affil, total_memberships |-> 0,
     chair_count |-> 0, conferences |-> {}, years_count |-> EmptyMap,
     areas |-> {}, sys_memberships |-> 0, sec_memberships |-> 0]

MaxOf(S) == CHOOSE x \in S : \A y \in S : y <= x
MinOf(S) == CHOOSE x \in S : \A y \in S : x <= y

\* line 506 as it would be if only the first record of a year could decide
MoreRecent_FirstOfYear(old, affil, year, years_count) ==
    /\ affil # <<>>
    /\ \/ old.affiliation = <<>>
       \/ /\ year # 0
          /\ MaxOf(DOMAIN years_count) = year
          /\ years_count[year] = 1

\* line 506: affiliation and (not rec['affiliation'] or (year and
\* max(rec['years']) == year)), the year being in rec['years'] already
MoreRecent(old, affil, year, years_count) ==
    /\ affil # <<>>
    /\ \/ old.affiliation = <<>>
       \/ year # 0 /\ MaxOf(DOMAIN years_count) = year

\* lines 499-501 as they would be if a year counted once
YearsCount_Distinct(old, year) ==
    IF year # 0 THEN (year :> 1) @@ old.years_count ELSE old.years_count

\* lines 499-501: if year: rec['years_count'][year] = ....get(year, 0) + 1
YearsCount(old, year) ==
    LET before == IF year \in DOMAIN old.years_count
                  THEN old.years_count[year] ELSE 0
    IN  IF year # 0 THEN (year :> before + 1) @@ old.years_count
        ELSE old.years_count

\* lines 487-525: the record of the member after one more committee record
UpdatedMember(old, name_raw, affil, role, conf_year) ==
    LET cy     == _extract_conf_year(conf_year)
        area   == conf_to_area(conf_year)
        year   == cy.year
        years_count == YearsCount(old, year)
        recent == MoreRecent(old, affil, year, years_count)
    IN  [name |-> IF recent THEN name_raw ELSE old.name,
         affiliation |-> IF recent THEN affil ELSE old.affiliation,
         total_memberships |-> old.total_memberships + 1,
         chair_count |-> old.chair_count + (IF role = "chair" THEN 1 ELSE 0),
         conferences |-> old.conferences \cup {cy.conf},
         years_count |-> years_count,
         areas |-> IF area \in {"systems", "security"}
                   THEN old.areas \cup {area} ELSE old.areas,
         sys_memberships |-> old.sys_memberships
                                + (IF area = "systems" THEN 1 ELSE 0),
         sec_memberships |-> old.sec_memberships
                                + (IF area = "security" THEN 1 ELSE 0)]

\* line 466: m.get('affiliation', '').strip('*_ \t')
StrippedAffiliation(m) == strip(m.affiliation, {"*", "_", " ", "TAB"})

\* lines 456-507: the body of the inner loop for one committee record
AddMember(map, conf_year, m) ==
    LET name_raw == strip(m.name, Whitespace)
        norm     == _normalize_name(name_raw)
        affil    == StrippedAffiliation(m)
        old      == IF norm \in DOMAIN map THEN map[norm]
                    ELSE NewMember(name_raw, affil)
    IN  IF name_raw = <<>> THEN map
        ELSE (norm :> UpdatedMember(old, name_raw, affil, m.role, conf_year))
                 @@ map

\* the characters of the names, by code point
CodePoints == <<" ", "*", ".", "A", "B", "C", "D", "E", "F", "G", "H", "I",
    "J", "K", "L", "M", "N", "O", "P", "Q", "R", "S", "T", "U", "V", "W",
    "X", "Y", "Z", "_", "a", "b", "c", "d", "e", "f", "g", "h", "i", "j",
    "k", "l", "m", "n", "o", "p", "q", "r", "s", "t", "u", "v", "w", "x",
    "y", "z", "A_ACUTE", "a_acute", "ACUTE">>
CodePoint(c) == CHOOSE i \in 1..Len(CodePoints) : CodePoints[i] = c

RECURSIVE StrLess(_, _)
\* a < b for two Python strings
StrLess(a, b) ==
    IF b = <<>> THEN FALSE
    ELSE IF a = <<>> THEN TRUE
    ELSE IF Head(a) # Head(b) THEN CodePoint(Head(a)) < CodePoint(Head(b))
    ELSE StrLess(Tail(a), Tail(b))

\* line 549: the order of the sort key (-total_memberships, -chair_count,
\* name)
EntryBefore(x, y) ==
    \/ x.total_memberships > y.total_memberships
    \/ /\ x.total_memberships = y.total_memberships
       /\ x.chair_count > y.chair_count
    \/ /\ x.total_memberships = y.total_memberships
       /\ x.chair_count = y.chair_count
       /\ StrLess(x.name, y.name)

RECURSIVE SortEntries(_)
SortEntries(S) ==
    IF S = {} THEN <<>>
    ELSE LET first == CHOOSE x \in S : \A y \in S \ {x} : EntryBefore(x, y)
         IN  <<first>> \o SortEntries(S \ {first})

\* lines 522-530: the area of a member
AreaOf(rec) ==
    IF rec.areas = {"systems", "security"} THEN "both"
    ELSE IF "systems" \in rec.areas THEN "systems"
    ELSE IF "security" \in rec.areas THEN "security"
    ELSE "unknown"

\* lines 535-545: the entry of a member in the list; first_year and
\* last_year are 0 for None
MemberEntry(rec) ==
    LET years == DOMAIN rec.years_count
    IN  [name |-> rec.name,
         affiliation |-> rec.affiliation,
         total_memberships |-> rec.total_memberships,
         chair_count |-> rec.chair_count,
         conferences |-> SelectSeq(<<"EUROSYS", "NDSS", "OSDI", "SOSP", "WOOT">>,
                                   LAMBDA c : c \in rec.conferences),
         area |-> AreaOf(rec),
         years |-> rec.years_count,
         first_year |-> IF years # {} THEN MinOf(years) ELSE 0,
         last_year |-> IF years # {} THEN MaxOf(years) ELSE 0]

\* line 519: at least 2 memberships, but always keep chairs
IsRecurring(rec) == rec.total_memberships >= 2 \/ rec.chair_count > 0

\* lines 518-549: the combined list
MembersList(map) ==
    SortEntries({MemberEntry(map[k]) :
                    k \in {n \in DOMAIN map : IsRecurring(map[n])}})

NoConf == "None"
NoRecord == [name |-> <<>>, conf_year |-> NoConf, affiliation |-> <<>>]

AggIdle ==
    /\ agg_pc = "idle"
    /\ member_map = EmptyMap
    /\ aggConf = NoConf
    /\ aggSeen = {}
    /\ aggLog = EmptyMap
    /\ aggLast = NoRecord
    /\ members_list = <<>>

AggInit ==
    /\ agg_pc = "loop"
    /\ member_map = EmptyMap
    /\ aggConf = NoConf
    /\ aggSeen = {}
    /\ aggLog = EmptyMap
    /\ aggLast = NoRecord
    /\ members_list = <<>>

LogCount(log) == IF log = EmptyMap THEN 0 ELSE BagCardinality(log)

\* one iteration of the inner loop, for the next member of the committee
\* being processed or the first member of the next committee
ProcessMember ==
    /\ UNCHANGED nonAggVars
    /\ agg_pc = "loop"
    /\ LogCount(aggLog) < MaxRecords
    /\ \E conf_year \in ConfYears \ aggSeen, m \in Members :
         /\ member_map' = AddMember(member_map, conf_year, m)
         /\ aggConf' = conf_year
         /\ aggSeen' = IF aggConf \in {NoConf, conf_year} THEN aggSeen
                       ELSE aggSeen \cup {aggConf}
         /\ aggLast' = [name |-> m.name, conf_year |-> conf_year,
                         affiliation |-> m.affiliation]
         /\ aggLog' = LET e == aggLast'
                          n == IF e \in DOMAIN aggLog THEN aggLog[e] ELSE 0
                      IN  (e :> n + 1) @@ aggLog
    /\ UNCHANGED <<agg_pc, members_list>>

\* lines 518-549 and the return
ReturnMembers ==
    /\ UNCHANGED nonAggVars
    /\ agg_pc = "loop"
    /\ members_list' = MembersList(member_map)
    /\ agg_pc' = "done"
    /\ UNCHANGED <<member_map, aggConf, aggSeen, aggLog, aggLast>>

AggNext ==
    \/ ProcessMember
    \/ ReturnMembers

(***************************************************************************)
(* The badges of one record, as each strategy extracts them:               *)
(* parse_html_results (lines 43-56), parse_markdown_table_results (lines   *)
(* 114-121), usenix_scrape.scrape_paper_page (lines 137-148),              *)
(* acm_scrape._scrape_acm_paper_badges (lines 200-223) and the front       *)
(* matter, whose badges get_ae_results returns as written (line 201).      *)
(*                                                                         *)
(* The source is the sequence of its badge marks (the spans of a cell, the *)
(* images of a page, the entries of a front matter's badges), each named   *)
(* by the badge it shows; "none" is a mark that shows no badge.            *)
(***************************************************************************)
\* the most badge marks of one source
MaxMarks == 3
BadgeMarks == {"available", "functional", "reusable", "reproduced", "none"}
Strategies ==
    {"front_matter", "parse_html_results", "parse_markdown_table_results",
     "scrape_paper_page", "_scrape_acm_paper_badges"}

\* the if/elif chain of one span or image: the marks in known are appended
AppendKnown(marks, known) == SelectSeq(marks, LAMBDA b : b \in known)

\* parse_html_results, lines 46-56: available, functional and reproduced
\* are appended span by span
HtmlBadges(marks) ==
    AppendKnown(marks, {"available", "functional", "reproduced"})

\* parse_markdown_table_results, lines 114-121: one test of the whole cell
\* for each of the three badges, in this order
MarkdownBadges(marks) ==
    SelectSeq(<<"available", "functional", "reproduced">>,
              LAMBDA b : b \in Range(marks))

\* scrape_paper_page, lines 137-148
UsenixBadges(marks) ==
    AppendKnown(marks, {"available", "functional", "reproduced"})

RECURSIVE Dedupe(_, _)
\* _scrape_acm_paper_badges, lines 216-221: badges without those in seen
Dedupe(badges, seen) ==
    IF badges = <<>> THEN <<>>
    ELSE IF Head(badges) \in seen THEN Dedupe(Tail(badges), seen)
    ELSE <<Head(badges)>> \o Dedupe(Tail(badges), seen \cup {Head(badges)})

\* _scrape_acm_paper_badges, lines 200-221
AcmBadges(marks) ==
    Dedupe(AppendKnown(marks, {"available", "functional", "reusable",
                               "reproduced"}), {})

\* the badges of a front-matter entry, as written
FrontMatterBadges(marks) == marks

ExtractedBadges(strategy, marks) ==
    CASE strategy = "front_matter" -> FrontMatterBadges(marks)
      [] strategy = "parse_html_results" -> HtmlBadges(marks)
      [] strategy = "parse_markdown_table_results" -> MarkdownBadges(marks)
      [] strategy = "scrape_paper_page" -> UsenixBadges(marks)
      [] OTHER -> AcmBadges(marks)

ExtIdle ==
    /\ ext_pc = "idle"
    /\ ext_strategy = "front_matter"
    /\ ext_marks = <<>>
    /\ ext_badges = <<>>

ExtInit ==
    /\ ext_pc = "ready"
    /\ ext_strategy \in Strategies
    /\ ext_marks \in SeqsUpTo(BadgeMarks, MaxMarks)
    /\ ext_strategy = "front_matter" => "none" \notin Range(ext_marks)
    /\ ext_badges = <<>>

ExtractBadges ==
    /\ UNCHANGED nonExtVars
    /\ ext_pc = "ready"
    /\ ext_badges' = ExtractedBadges(ext_strategy, ext_marks)
    /\ ext_pc' = "done"
    /\ UNCHANGED <<ext_strategy, ext_marks>>

ExtNext == ExtractBadges

(***************************************************************************)
(* The cache functions on a cache file of any content: _read_cache,        *)
(* _read_cache_entry, _refresh_cache_ts (sys_sec_scrape.py lines 63-107)   *)
(* and _cached_get (lines 273-311) when the file of its URL exists.        *)
(*                                                                         *)
(* json: "undecodable" (bytes that are no UTF-8 text), "invalid" (text     *)
(* that is no JSON), "falsy" (null, 0, "", []), "truthy" (another value    *)
(* that is no object) or "object".  For an object: ts is "number", "text"  *)
(* (a value that is no number) or "missing"; body and etag say whether the *)
(* key is there; fresh says whether a numeric ts is within CACHE_TTL.      *)
(***************************************************************************)
CacheFiles ==
    { f \in [json : {"undecodable", "invalid", "falsy", "truthy", "object"},
             ts : {"number", "text", "missing"},
             body : BOOLEAN, etag : BOOLEAN, fresh : BOOLEAN] :
        /\ f.json # "object"
              => f.ts = "missing" /\ ~f.body /\ ~f.etag /\ ~f.fresh
        /\ f.fresh => f.ts = "number" }

\* a file as _write_cache leaves it
WellFormed(f) == f.json = "object" /\ f.ts = "number" /\ f.body

NoFile == [json |-> "invalid", ts |-> "missing", body |-> FALSE,
           etag |-> FALSE, fresh |-> FALSE]
NoResult == [value |-> PyNone, raised |-> PyNone, file |-> NoFile, requests |-> 0]
Returns(v, f) == [value |-> v, raised |-> PyNone, file |-> f, requests |-> 0]
Raises(e, f) == [value |-> PyNone, raised |-> e, file |-> f, requests |-> 0]

\* _read_cache(key, ttl, namespace), lines 63-75; the value is "body" for
\* entry['body']
ReadCacheFile(f) ==
    CASE f.json = "undecodable" -> Raises("UnicodeDecodeError", f)
      [] f.json = "invalid" -> Returns(PyNone, f)
      [] f.json \in {"falsy", "truthy"} -> Raises("TypeError", f)
      [] f.ts = "missing" -> Returns(PyNone, f)
      [] f.ts = "text" -> Raises("TypeError", f)
      [] OTHER -> IF f.fresh /\ f.body THEN Returns("body", f)
                  ELSE Returns(PyNone, f)

\* _read_cache_entry(key, namespace), lines 77-86; the value is "entry" for
\* the parsed object, "falsy" or "truthy" for a parsed value of that kind
ReadCacheEntryFile(f) ==
    CASE f.json = "undecodable" -> Raises("UnicodeDecodeError", f)
      [] f.json = "invalid" -> Returns(PyNone, f)
      [] f.json \in {"falsy", "truthy"} -> Returns(f.json, f)
      [] OTHER -> Returns("entry", f)

\* _refresh_cache_ts(key, namespace), lines 97-107
RefreshCacheTsFile(f) ==
    CASE f.json = "undecodable" -> Raises("UnicodeDecodeError", f)
      [] f.json = "invalid" -> Returns(PyNone, f)
      [] f.json \in {"falsy", "truthy"} -> Raises("TypeError", f)
      [] OTHER -> Returns(PyNone, [f EXCEPT !.ts = "number", !.fresh = TRUE])

\* what the origin answers: 304 only to a request with If-None-Match
GetResponses == {"304", "200", "error"}

\* _cached_get(url), lines 279-311, with one response of the origin
CachedGetFile(f, response) ==
    LET cached == ReadCacheFile(f)
        entry  == ReadCacheEntryFile(f)
        inm    == entry.value = "entry" /\ f.etag
        written == [json |-> "object", ts |-> "number", body |-> TRUE,
                    etag |-> FALSE, fresh |-> TRUE]
    IN  IF cached.raised # PyNone THEN cached
        ELSE IF cached.value # PyNone THEN cached
        ELSE IF entry.raised # PyNone THEN entry
        ELSE IF entry.value = "truthy"
        THEN \* entry.get on a value that is no object
             Raises("AttributeError", f)
        ELSE IF response = "304" /\ inm
        THEN [RefreshCacheTsFile(f) EXCEPT
                 !.value = IF f.body THEN "body" ELSE PyNone,
                 !.requests = 1]
        ELSE IF response = "200" \/ (response = "304" /\ ~inm)
        THEN [Returns("body", written) EXCEPT !.requests = 1]
        ELSE [Raises("HTTPError", f) EXCEPT !.requests = 1]

CfIdle ==
    /\ cf_pc = "idle"
    /\ cache_file = NoFile
    /\ cf_call = PyNone
    /\ cf_result = NoResult

CfInit ==
    /\ cf_pc = "ready"
    /\ cache_file \in CacheFiles
    /\ cf_call = PyNone
    /\ cf_result = NoResult

CallReadCache ==
    /\ UNCHANGED nonCfVars
    /\ cf_pc = "ready"
    /\ cf_call' = "_read_cache"
    /\ cf_result' = ReadCacheFile(cache_file)
    /\ cf_pc' = "done"
    /\ UNCHANGED cache_file

CallReadCacheEntry ==
    /\ UNCHANGED nonCfVars
    /\ cf_pc = "ready"
    /\ cf_call' = "_read_cache_entry"
    /\ cf_result' = ReadCacheEntryFile(cache_file)
    /\ cf_pc' = "done"
    /\ UNCHANGED cache_file

CallRefreshCacheTs ==
    /\ UNCHANGED nonCfVars
    /\ cf_pc = "ready"
    /\ cf_call' = "_refresh_cache_ts"
    /\ cf_result' = RefreshCacheTsFile(cache_file)
    /\ cf_pc' = "done"
    /\ UNCHANGED cache_file

CallCachedGet ==
    /\ UNCHANGED nonCfVars
    /\ cf_pc = "ready"
    /\ cf_call' = "_cached_get"
    /\ \E response \in GetResponses :
          cf_result' = CachedGetFile(cache_file, response)
    /\ cf_pc' = "done"
    /\ UNCHANGED cache_file

CfNext ==
    \/ CallReadCache
    \/ CallReadCacheEntry
    \/ CallRefreshCacheTs
    \/ CallCachedGet

(***************************************************************************)
(* The batch operations: get_ae_results (sys_sec_artifacts_results_scrape, *)
(* lines 160-229) and get_committees (sys_sec_committee_scrape, lines      *)
(* 138-156, with get_committee_for_conference, lines 60-136).              *)
(*                                                                         *)
(* The conferences are those of the listing that match the regex, numbered *)
(* in listing order.  For each, the network gives an outcome for the first *)
(* file name, one for the second if the code asks for it, and a document.  *)
(* download_file raises what _cached_get raises: HTTPError from            *)
(* raise_for_status, ConnectionError from the session (a timeout of the    *)
(* session reaches the caller as a ConnectionError: ConnectTimeout is one, *)
(* and the retrying adapter reports exhausted retries as one).             *)
(***************************************************************************)
\* the most conferences of a batch
NConfs == 3
BatchConfs == 1..NConfs

FetchOutcomes == {"ok", "HTTPError", "ConnectionError"}
NotAsked == "not_asked"

\* the results documents a download can give: front matter with one
\* artifact, front matter whose artifacts key has no value, front matter
\* that is not YAML over a page without tables, and a page without either
ResultsDocs ==
    { [fm |-> "artifacts", artifacts |-> <<[title |-> Foo]>>,
       table |-> "none", rows |-> <<>>],
      [fm |-> "artifacts_null", artifacts |-> <<>>,
       table |-> "none", rows |-> <<>>],
      [fm |-> "yaml_error", artifacts |-> <<>>,
       table |-> "none", rows |-> <<>>],
      NoContent }

\* the committee pages: one that lists members and one that lists none
CommitteeDocs == {"members", "no_members"}
\* the document of a conference: <<d>>, or <<>> if no download succeeded
NoDoc == <<>>

\* what the network gives for one conference
NoInput == [first |-> NotAsked, second |-> NotAsked, doc |-> NoDoc]

\* lines 174-185 of get_ae_results: the except clauses of the download loop
AeCaught == {"HTTPError", "ConnectionError"}
\* lines 63-70 of get_committee_for_conference: its except clauses
CommitteeCaught == {"HTTPError"}

\* the two attempts of one conference, for a set of caught exceptions:
\* "ok" with the document, "none" if both were caught, or the exception
\* that leaves the function
Attempts(in, caught) ==
    IF in.first = "ok" THEN "ok"
    ELSE IF in.first \notin caught THEN in.first
    ELSE IF in.second = "ok" THEN "ok"
    ELSE IF in.second \notin caught THEN in.second
    ELSE "none"

\* the inputs the attempts consume: the second outcome only if the first
\* was caught, a document only if an attempt succeeded
ConsistentInput(in, caught, docs) ==
    /\ in.first \in FetchOutcomes
    /\ in.second \in (IF in.first \in caught THEN FetchOutcomes ELSE {NotAsked})
    /\ in.doc \in (IF Attempts(in, caught) = "ok"
                   THEN {<<d>> : d \in docs} ELSE {NoDoc})

BatchInputs(caught, docs) ==
    { in \in [first : FetchOutcomes, second : FetchOutcomes \cup {NotAsked},
              doc : {<<d>> : d \in docs} \cup {NoDoc}] :
        ConsistentInput(in, caught, docs) }

\* get_committee_for_conference, lines 60-136: None, or the committee
\* parsed from the page (no line of a page makes _parse_member_line raise)
get_committee_for_conference(in) ==
    LET got == Attempts(in, CommitteeCaught)
    IN  IF got = "ok"
        THEN [kind |-> "list", members |-> in.doc[1] = "members"]
        ELSE IF got = "none" THEN [kind |-> "None", members |-> FALSE]
        ELSE [kind |-> got, members |-> FALSE]

BatchIdle ==
    /\ batch_pc = "idle"
    /\ batch_fn = "none"
    /\ batch_i = 0
    /\ batch_in = [c \in BatchConfs |-> NoInput]
    /\ batch_results = {}
    /\ batch_out = {}

\* either operation is called; the listing has been fetched
BatchInit ==
    /\ batch_fn \in {"get_ae_results", "get_committees"}
    /\ batch_pc = IF batch_fn = "get_ae_results" THEN "download"
                  ELSE "committees"
    /\ batch_i = 1
    /\ batch_in = [c \in BatchConfs |-> NoInput]
    /\ batch_results = {}
    /\ batch_out = {}

\* get_ae_results, lines 168-188: the download loop, for one conference
AeDownload ==
    /\ UNCHANGED nonBatchVars
    /\ batch_pc = "download"
    /\ \E in \in BatchInputs(AeCaught, ResultsDocs) :
         LET got == Attempts(in, AeCaught)
         IN  /\ batch_in' = [batch_in EXCEPT ![batch_i] = in]
             /\ batch_results' = IF got = "ok"
                                 THEN batch_results \cup {batch_i}
                                 ELSE batch_results
             /\ IF got \notin {"ok", "none"}
                THEN batch_pc' = "raised" /\ batch_i' = batch_i
                ELSE IF batch_i = NConfs
                THEN batch_pc' = "parse" /\ batch_i' = 1
                ELSE batch_pc' = "download" /\ batch_i' = batch_i + 1
    /\ UNCHANGED <<batch_fn, batch_out>>

\* get_ae_results, lines 192-227: the parsing loop, for one conference of
\* the listing (a step that does nothing if results has no document of it)
AeParse ==
    /\ UNCHANGED nonBatchVars
    /\ batch_pc = "parse"
    /\ LET parsed == IF batch_i \in batch_results
                     THEN ParseDocument(batch_in[batch_i].doc[1]).result
                     ELSE NotParsed
       IN  /\ batch_out' = IF parsed.kind = "records"
                           THEN batch_out \cup {batch_i}
                           ELSE batch_out
           /\ IF parsed.kind \notin {"records", "absent"}
              THEN batch_pc' = "raised" /\ batch_i' = batch_i
              ELSE IF batch_i = NConfs
              THEN batch_pc' = "returned" /\ batch_i' = batch_i
              ELSE batch_pc' = "parse" /\ batch_i' = batch_i + 1
    /\ UNCHANGED <<batch_fn, batch_in, batch_results>>

\* get_committees, lines 146-156: the loop body, for one conference
CommitteeStep ==
    /\ UNCHANGED nonBatchVars
    /\ batch_pc = "committees"
    /\ \E in \in BatchInputs(CommitteeCaught, CommitteeDocs) :
         LET committee == get_committee_for_conference(in)
         IN  /\ batch_in' = [batch_in EXCEPT ![batch_i] = in]
             /\ batch_out' = IF committee.kind = "list" /\ committee.members
                             THEN batch_out \cup {batch_i}
                             ELSE batch_out
             /\ IF committee.kind \notin {"list", "None"}
                THEN batch_pc' = "raised" /\ batch_i' = batch_i
                ELSE IF batch_i = NConfs
                THEN batch_pc' = "returned" /\ batch_i' = batch_i
                ELSE batch_pc' = "committees" /\ batch_i' = batch_i + 1
    /\ UNCHANGED <<batch_fn, batch_results>>

BatchNext == AeDownload \/ AeParse \/ CommitteeStep

(***************************************************************************)
(* Rate limiting: the requests of _cached_get (lines 291-300),             *)
(* cached_github_stats (lines 161-169) and check_url_cached (lines         *)
(* 124-129) through the session of _session_with_retries (lines 23-38).    *)
(*                                                                         *)
(* One call of _session.get or _session.head sends a request and, while    *)
(* the status answered is in status_forcelist and retries are left, sends  *)
(* it again after the adapter's own backoff; with raise_on_status=False    *)
(* the last response is returned.  Times are in seconds here.              *)
(***************************************************************************)
\* Retry(total=retries) with retries=3 (lines 23, 27)
RetryTotal == 3
\* the statuses the server answers here: normal service, a 403 whose text
\* carries a rate-limit message, and 429 Too Many Requests
RlStatuses == {"200", "403rl", "429"}
\* status_forcelist=[429, 500, 502, 503, 504] (line 29), of RlStatuses
StatusForcelist == {"429"}
\* the requests two session calls can send
MaxWire == 2 * (RetryTotal + 1)
RlFunctions == {"_cached_get", "cached_github_stats", "check_url_cached"}
\* int(time.time()) when the rate-limited response is handled
RlNow == 100
\* X-RateLimit-Reset of the response; 0 is what headers.get(..., 0) gives
\* when the server sends none
ResetHeaders == {0, 90, 160}

NoCall == [calls |-> 0, requests |-> 0, slept |-> 0, first |-> "none",
           status |-> "none", result |-> PyNone]

RlIdle ==
    /\ rl_pc = "idle"
    /\ rl_fn = "none"
    /\ rl_srv = <<>>
    /\ rl_reset = 0
    /\ rl_out = NoCall

RECURSIVE AdapterSend(_, _, _)
\* one call of the session when `sent` requests have gone out before it:
\* the status it returns and the requests gone out after it
AdapterSend(srv, sent, retries) ==
    LET status == srv[sent + 1]
    IN  IF status \in StatusForcelist /\ retries > 0
        THEN AdapterSend(srv, sent + 1, retries - 1)
        ELSE [status |-> status, sent |-> sent + 1]

\* lines 163, 294: resp.status_code == 403 and 'rate limit' in resp.text.lower();
\* line 126: resp.status_code == 429
IsRateLimited(fn, status) ==
    IF fn = "check_url_cached" THEN status = "429" ELSE status = "403rl"

\* lines 164-165, 295-296: wait = max(reset_time - int(time.time()), 0) + 5;
\* line 127: time.sleep(10)
RateLimitWait(fn, reset) ==
    IF fn = "check_url_cached" THEN 10
    ELSE (IF reset - RlNow > 0 THEN reset - RlNow ELSE 0) + 5

\* what the function makes of the last response
RlResult(fn, status) ==
    CASE fn = "_cached_get" ->
            IF status = "200" THEN "body" ELSE "raised"   \* line 307
      [] fn = "cached_github_stats" ->
            IF status = "200" THEN "stats" ELSE PyNone    \* lines 192-196
      [] OTHER ->
            IF status = "200" THEN "true" ELSE "false"    \* line 129

\* the request, the wait and the single retry of one call
RateLimitedCall(fn, srv, reset) ==
    LET first  == AdapterSend(srv, 0, RetryTotal)
        again  == IsRateLimited(fn, first.status)
        second == AdapterSend(srv, first.sent, RetryTotal)
        last   == IF again THEN second ELSE first
    IN  [calls    |-> IF again THEN 2 ELSE 1,
         requests |-> last.sent,
         slept    |-> IF again THEN RateLimitWait(fn, reset) ELSE 0,
         first    |-> srv[1],
         status   |-> last.status,
         result   |-> RlResult(fn, last.status)]

RlInit ==
    /\ rl_pc = "ready"
    /\ rl_fn \in RlFunctions
    /\ rl_srv \in [1..MaxWire -> RlStatuses]
    /\ rl_reset \in ResetHeaders
    /\ rl_out = NoCall

\* the call, from its first request to its return
RlCall ==
    /\ UNCHANGED nonRlVars
    /\ rl_pc = "ready"
    /\ rl_pc' = "done"
    /\ rl_out' = RateLimitedCall(rl_fn, rl_srv, rl_reset)
    /\ UNCHANGED <<rl_fn, rl_srv, rl_reset>>

RlNext == RlCall

(***************************************************************************)
(* Committee pages: sys_sec_committee_scrape.get_committee_for_conference  *)
(* (lines 74-136) on the text of committee.md.                             *)
(*                                                                         *)
(* A document is its lines, each of one of these kinds:                    *)
(*   "chair_h"   a heading the chair test of lines 87-90 accepts that does  *)
(*               not hold the text 'Artifact Evaluation Committee', such   *)
(*               as '## Chairs';                                           *)
(*   "member_h"  a heading the member test of lines 94-96 accepts without  *)
(*               that text, such as '## Members';                          *)
(*   "aec_h"     the heading '## Artifact Evaluation Committee', which the *)
(*               member test accepts and which holds that text;            *)
(*   "aec_plain" the line 'Artifact Evaluation Committee', no heading;     *)
(*   a name      a list item naming a person, '- A (X)'.                   *)
(***************************************************************************)
\* lines of a committee page
MaxLines == 4
PersonLines == {"Ann", "Bob"}
HeadingLines == {"chair_h", "member_h", "aec_h"}
LineKinds == HeadingLines \cup {"aec_plain"} \cup PersonLines
CommitteeDocuments == SeqsUpTo(LineKinds, MaxLines)

\* _parse_member_line (lines 7-57): the name of the line, <<>> for a line
\* that is skipped.  A line starting with '#' is skipped; the plain line
\* 'Artifact Evaluation Committee' has neither parenthesis nor comma and is
\* taken for a name.
_parse_member_line(line) ==
    IF line \in HeadingLines THEN <<>>
    ELSE IF line = "aec_plain" THEN <<"Artifact Evaluation Committee">>
    ELSE <<line>>

RECURSIVE SectionLines(_, _, _)
\* lines 85-102: the lines of the section `which`, current_section being
\* `current` before the first of `lines`
SectionLines(lines, current, which) ==
    IF lines = <<>> THEN <<>>
    ELSE IF Head(lines) = "chair_h"
    THEN SectionLines(Tail(lines), "chair", which)
    ELSE IF Head(lines) \in {"member_h", "aec_h"}
    THEN SectionLines(Tail(lines), "member", which)
    ELSE (IF current = which THEN <<Head(lines)>> ELSE <<>>)
            \o SectionLines(Tail(lines), current, which)

\* the positions of the lines that hold 'Artifact Evaluation Committee'
MarkerLines(doc) == {i \in 1..Len(doc) : doc[i] \in {"aec_h", "aec_plain"}}

\* response.split('Artifact Evaluation Committee')[-1].strip().splitlines():
\* the lines after the last line holding the text, all lines if none does
AfterMarker(doc) ==
    IF MarkerLines(doc) = {} THEN doc
    ELSE SubSeq(doc, MaxOf(MarkerLines(doc)) + 1, Len(doc))

RECURSIVE ParseLines(_, _)
\* the loops of lines 109-111, 115-118, 121-124: a record for every line
\* that has a name
ParseLines(lines, role) ==
    IF lines = <<>> THEN <<>>
    ELSE LET name == _parse_member_line(Head(lines))
         IN  (IF name # <<>> THEN <<[name |-> name[1], role |-> role]>>
              ELSE <<>>) \o ParseLines(Tail(lines), role)

RECURSIVE AppendNew(_, _)
\* lines 131-134: the records of `lines` whose name the list does not hold
AppendNew(list, lines) ==
    IF lines = <<>> THEN list
    ELSE LET name == _parse_member_line(Head(lines))
         IN  IF name # <<>> /\ \A i \in 1..Len(list) : list[i].name # name[1]
             THEN AppendNew(Append(list, [name |-> name[1], role |-> "member"]),
                            Tail(lines))
             ELSE AppendNew(list, Tail(lines))

\* lines 113-124: the chairs, then the members
ChairsThenMembers(doc) ==
    ParseLines(SectionLines(doc, "none", "chair"), "chair")
        \o ParseLines(SectionLines(doc, "none", "member"), "member")

\* get_committee_for_conference from line 74 on
ParseCommitteeDocument(doc) ==
    LET chair_lines  == SectionLines(doc, "none", "chair")
        member_lines == SectionLines(doc, "none", "member")
    IN  IF chair_lines = <<>> /\ member_lines = <<>>
        THEN ParseLines(AfterMarker(doc), "member")          \* lines 105-112
        ELSE IF member_lines = <<>> /\ MarkerLines(doc) # {}
        THEN AppendNew(ChairsThenMembers(doc), AfterMarker(doc))  \* 126-134
        ELSE ChairsThenMembers(doc)

CmIdle ==
    /\ cm_pc = "idle"
    /\ cm_doc = <<>>
    /\ cm_committee = <<>>

CmInit ==
    /\ cm_pc = "ready"
    /\ cm_doc \in CommitteeDocuments
    /\ cm_committee = <<>>

ParseCommittee ==
    /\ UNCHANGED nonCmVars
    /\ cm_pc = "ready"
    /\ cm_committee' = ParseCommitteeDocument(cm_doc)
    /\ cm_pc' = "done"
    /\ UNCHANGED cm_doc

CmNext == ParseCommittee

(***************************************************************************)
(* Specifications: one per subsystem, the others idle.                     *)
(***************************************************************************)
NetIdle == AcmIdle /\ CacheIdle /\ HttpIdle /\ UrlIdle
PureIdle == BadgeIdle /\ AeIdle /\ ClsIdle /\ AggIdle
MoreIdle == ExtIdle /\ CfIdle /\ BatchIdle
LateIdle == RlIdle /\ CmIdle

InitAcm == AcmInit /\ CacheIdle /\ HttpIdle /\ UrlIdle /\ PureIdle /\ MoreIdle /\ LateIdle
SpecAcm == InitAcm /\ [][AcmNext]_vars

InitHttp == HttpInit /\ AcmIdle /\ UrlIdle /\ PureIdle /\ MoreIdle /\ LateIdle
SpecHttp == InitHttp /\ [][HttpNext]_vars

SpecReval == InitHttp /\ [][RevalNext]_vars

InitUrl == UrlInit /\ AcmIdle /\ HttpIdle /\ PureIdle /\ MoreIdle /\ LateIdle
SpecUrl == InitUrl /\ [][UrlNext]_vars

InitBadge == BadgeInit /\ NetIdle /\ AeIdle /\ ClsIdle /\ AggIdle /\ MoreIdle /\ LateIdle
SpecBadge == InitBadge /\ [][BadgeNext]_vars

InitAe == AeInit /\ NetIdle /\ BadgeIdle /\ ClsIdle /\ AggIdle /\ MoreIdle /\ LateIdle
SpecAe == InitAe /\ [][AeNext]_vars

InitCls == ClsInit /\ NetIdle /\ BadgeIdle /\ AeIdle /\ AggIdle /\ MoreIdle /\ LateIdle
SpecCls == InitCls /\ [][ClsNext]_vars

InitIndex == IndexInit /\ NetIdle /\ BadgeIdle /\ AeIdle /\ AggIdle /\ MoreIdle /\ LateIdle
SpecIndex == InitIndex /\ [][IndexNext]_vars

InitAgg == AggInit /\ NetIdle /\ BadgeIdle /\ AeIdle /\ ClsIdle /\ MoreIdle /\ LateIdle
SpecAgg == InitAgg /\ [][AggNext]_vars

InitExt == ExtInit /\ NetIdle /\ PureIdle /\ CfIdle /\ BatchIdle /\ LateIdle
SpecExt == InitExt /\ [][ExtNext]_vars

InitCf == CfInit /\ NetIdle /\ PureIdle /\ ExtIdle /\ BatchIdle /\ LateIdle
SpecCf == InitCf /\ [][CfNext]_vars

InitBatch == BatchInit /\ NetIdle /\ PureIdle /\ ExtIdle /\ CfIdle /\ LateIdle
SpecBatch == InitBatch /\ [][BatchNext]_vars

InitRl == RlInit /\ NetIdle /\ PureIdle /\ MoreIdle /\ CmIdle
SpecRl == InitRl /\ [][RlNext]_vars

InitCm == CmInit /\ NetIdle /\ PureIdle /\ MoreIdle /\ RlIdle
SpecCm == InitCm /\ [][CmNext]_vars

(***************************************************************************)
(* Claims.                                                                 *)
(***************************************************************************)
\* C1 (as stated): once three lookups of the running call have come back
\* blocked, no task of that call issues a request to the source any more,
\* under every schedule of the pool.
C1_NoRequestAfterThreeBlocked == ~acmHist.late

\* C1 (amended): a task that starts after the source was marked blocked
\* (it reads acm_dl_accessible = FALSE) is finished at once with empty
\* badges and never reaches the request, and a task is skipped only because
\* of lookups of its own call: a block recorded by an earlier call does not
\* skip it.
C1_SkippedAfterMarked ==
    /\ \A p \in acmHist.sawFalse : fpc[p] = "done" /\ fresult[p] = "empty"
    /\ acmHist.sawFalse # {} => acmHist.noneCount >= BlockThreshold

\* three lookups came back blocked, the source was marked and a later task
\* was skipped, in a call that follows a blocked call
C1_Witness ==
    /\ acmHist.cameBack >= BlockThreshold
    /\ ~acm_dl_accessible
    /\ acmHist.sawFalse # {}
    /\ acmHist.prevBlocked

\* a successful call
GetOk(r) == r \notin {PyNone, "raised"}

\* C2: whenever the http_get cache holds a well-formed entry for the URL
\* whose age is below CACHE_TTL, download_file returns exactly that entry's
\* body and issues no network request.
C2_FreshEntryServed ==
    lastGet.freshBody # PyNone =>
        /\ lastGet.result = lastGet.freshBody
        /\ lastGet.requests = 0

\* a call was served from an entry written days before, although the
\* origin holds another content by now
C2_Witness ==
    /\ lastGet.freshBody # PyNone
    /\ lastGet.result = lastGet.freshBody
    /\ cache[<<"http_get", Url>>].ts < now
    /\ srvBody # lastGet.result

\* two successful calls in a row with no change at the origin in between
TwoFetchesNoChange ==
    /\ GetOk(prevBody)
    /\ GetOk(lastGet.result)
    /\ ~lastGet.sinceChange

\* C3 (as stated): two fetches of the same URL with no change at the origin
\* in between return the same body, and the second transfers no fresh body:
\* no request within the TTL, and after it only a conditional request that
\* is answered 304.
C3_SecondFetchFree ==
    TwoFetchesNoChange =>
        /\ lastGet.result = prevBody
        /\ \/ lastGet.requests = 0
           \/ lastGet.conditional /\ lastGet.status = "304"

\* C3 (amended): within the TTL the second fetch makes no request and
\* returns the same body.  After the TTL it returns the same body provided
\* the entry holds the origin's current content; its requests are
\* conditional and answered 304 exactly when the entry carries an ETag,
\* and otherwise the body is downloaded again with an unconditional GET.
C3_SecondFetchAmended ==
    TwoFetchesNoChange =>
        /\ lastGet.freshBody # PyNone =>
              lastGet.requests = 0 /\ lastGet.result = prevBody
        /\ (lastGet.freshBody = PyNone /\ lastGet.inSync) =>
              /\ lastGet.result = prevBody
              /\ lastGet.requests >= 1
              /\ lastGet.conditional = lastGet.hadEtag
              /\ lastGet.status = IF lastGet.hadEtag THEN "304" ELSE "200"

\* both branches after the TTL happen: a revalidation answered 304, and a
\* full download from an origin that sends no ETag
C3_Witness ==
    /\ TwoFetchesNoChange
    /\ lastGet.freshBody = PyNone
    /\ lastGet.inSync
    /\ lastGet.hadEtag
    /\ lastGet.status = "304"
    /\ lastGet.result = prevBody

\* a url_exists entry of the given age and body, in the current cache
WithUrlEntry(age, body) ==
    [cache EXCEPT ![<<"url_exists", Url>>] =
        [kind |-> "ok", ts |-> now - age, body |-> body, etag |-> PyNone]]

\* check_url_cached(url, ttl) answers from an entry of that age and body
\* without a request
UrlServed(age, body, ttl) ==
    UrlCachedAnswer(WithUrlEntry(age, body), Url, ttl) # PyNone

\* the last call found a cached False and answered it without a request
ServedFalse ==
    lastCheck.body = "false" /\ lastCheck.requests = 0 /\ lastCheck.result = "false"

\* the last call found a cached True and went to the network all the same
RecheckedTrue ==
    lastCheck.body = "true" /\ lastCheck.requests > 0

\* at some age a cached False is re-checked while a cached True is served
FalseSoonerAtSomeAge(ttl) ==
    \E age \in 0..CACHE_TTL_URL :
        ~UrlServed(age, "false", ttl) /\ UrlServed(age, "true", ttl)

\* C4 (as stated): for every ttl a caller passes, a cached False is
\* re-checked strictly sooner than a cached True: wherever a call serves a
\* cached False, a cached True of the same age would be served too, and at
\* some age the False is re-checked while the True is still served.
C4_NegativeExpiresSooner ==
    ServedFalse =>
        /\ UrlServed(lastCheck.age, "true", lastCheck.ttl)
        /\ FalseSoonerAtSomeAge(lastCheck.ttl)

\* C4 (amended): the same, for every ttl greater than CACHE_TTL_URL_NEG
\* (the default CACHE_TTL_URL among them).  A cached False is served until
\* CACHE_TTL_URL_NEG whatever ttl is, so for a ttl of at most
\* CACHE_TTL_URL_NEG a cached True is re-checked no later than a False.
C4_NegativeExpiresSoonerAboveNeg ==
    /\ lastCheck.body = "false"
          => (lastCheck.requests = 0 <=> lastCheck.age < CACHE_TTL_URL_NEG)
    /\ lastCheck.body = "true"
          => (lastCheck.requests = 0 <=> lastCheck.age < lastCheck.ttl)
    /\ (ServedFalse /\ lastCheck.ttl > CACHE_TTL_URL_NEG)
          => /\ UrlServed(lastCheck.age, "true", lastCheck.ttl)
             /\ FalseSoonerAtSomeAge(lastCheck.ttl)
    /\ (RecheckedTrue /\ lastCheck.ttl > CACHE_TTL_URL_NEG)
          => ~UrlServed(lastCheck.age, "false", lastCheck.ttl)
    /\ (RecheckedTrue /\ lastCheck.ttl <= CACHE_TTL_URL_NEG)
          => ~FalseSoonerAtSomeAge(lastCheck.ttl)

\* with the default ttl, a cached False of an age at which a True is still
\* served was re-checked over the network
C4_Witness ==
    /\ lastCheck.ttl = CACHE_TTL_URL
    /\ lastCheck.body = "false"
    /\ lastCheck.requests > 0
    /\ UrlServed(lastCheck.age, "true", lastCheck.ttl)

\* the three spellings of the "available" badge that the contract names
AvailableSpellings ==
    { <<"A", "r", "t", "i", "f", "a", "c", "t", "s", " ",
        "A", "v", "a", "i", "l", "a", "b", "l", "e">>,
      <<"a", "r", "t", "i", "f", "a", "c", "t", "s", "_",
        "a", "v", "a", "i", "l", "a", "b", "l", "e">>,
      <<"a", "v", "a", "i", "l", "a", "b", "l", "e">> }

\* C5: _normalise_badge returns the same canonical value 'available' for
\* each of the three spellings "Artifacts Available", "artifacts_available"
\* and "available".
C5_ThreeSpellingsAvailable ==
    (badge_pc = "done" /\ badge_text \in AvailableSpellings)
        => badge_out = Available

\* a text is a recognised badge spelling if its key is in _BADGE_MAP
Recognised(text) == BadgeKey(text) \in DOMAIN _BADGE_MAP

\* only a-z and single spaces between words
IsBadgeNormalForm(s) ==
    /\ \A i \in 1..Len(s) : s[i] \in Range(LowerCase) \cup {" "}
    /\ s # <<>> => (s[1] # " " /\ s[Len(s)] # " ")
    /\ \A i \in 1..(Len(s) - 1) : ~(s[i] = " " /\ s[i + 1] = " ")

FrontMatterReturned ==
    /\ parsed_results.kind = "records"
    /\ parsed_results.records = content.artifacts

\* C7: for a document with both a valid front matter with artifacts and a
\* table, get_ae_results returns exactly the front matter's records for it
\* and invokes neither parse_html_results nor parse_markdown_table_results
\* on it.
C7_FrontMatterFirst ==
    (ae_pc = "done" /\ content.fm = "artifacts")
        => /\ FrontMatterReturned
           /\ parserCalls = {}

\* a document with artifacts in its front matter and a table whose rows
\* either parser would have turned into records
C7_Witness ==
    /\ ae_pc = "done"
    /\ content.fm = "artifacts"
    /\ content.artifacts # <<>>
    /\ parse_html_results(content) # <<>>
    /\ FrontMatterReturned
    /\ parserCalls = {}

\* the best score over name_index, and the institutions that reach it
BestRatio(aff_lower) ==
    MaxOf({fuzz_ratio(name_index[i].key, aff_lower) :
              i \in 1..Len(name_index)})
BestCandidates(aff_lower) ==
    {name_index[i].uni : i \in
        {j \in 1..Len(name_index) :
            fuzz_ratio(name_index[j].key, aff_lower) = BestRatio(aff_lower)}}
AffLower == strip(lower(affiliation), Whitespace)

\* the call came to the fuzzy fallback
FuzzyCase ==
    /\ cls_pc = "done"
    /\ AffLower # <<>>
    /\ PrefixMatches(AffLower) = <<>>

\* C8 (as stated): with no prefix match, classify_member accepts the
\* highest-scoring candidate if and only if its score is at or above 80: a
\* best score of exactly 80 resolves to that candidate, any best score below
\* 80 returns (None, None).
C8_AcceptAtOrAbove ==
    FuzzyCase =>
        IF BestRatio(AffLower) >= 80
        THEN classified \in BestCandidates(AffLower)
        ELSE classified = NoUni

\* C8 (amended): with no prefix match, classify_member accepts the
\* highest-scoring candidate if and only if its score is above 80: a best
\* score of exactly 80, like any best score below 80, returns (None, None).
C8_AcceptAbove ==
    FuzzyCase =>
        IF BestRatio(AffLower) > 80
        THEN classified \in BestCandidates(AffLower)
        ELSE classified = NoUni

\* a best score of exactly 80 was left unresolved
C8_Witness ==
    /\ FuzzyCase
    /\ BestRatio(AffLower) = 80
    /\ classified = NoUni

\* the person a name denotes when case, diacritics, periods and the amount
\* of whitespace are disregarded
PersonOf(name) ==
    LET n == strip(name, Whitespace)
    IN  IF n \in {ASmithDot, ASmith, strip(ASmithVariant, Whitespace)}
        THEN "a smith"
        ELSE IF n = BSmith THEN "b smith"
        ELSE "nobody"
Persons == {"a smith", "b smith"}
Years == {2021, 2022, 2023}

\* the committee records of a person processed so far, and those of a year
RecordsOf(person) ==
    LogCount([e \in {x \in DOMAIN aggLog : PersonOf(x.name) = person}
                 |-> aggLog[e]])
RecordsIn(person, year) ==
    LogCount([e \in {x \in DOMAIN aggLog :
                        /\ PersonOf(x.name) = person
                        /\ _extract_conf_year(x.conf_year).year = year}
                 |-> aggLog[e]])
ProfilesOf(person) ==
    {k \in DOMAIN member_map : PersonOf(member_map[k].name) = person}
YearsOf(person) == {y \in Years : RecordsIn(person, y) > 0}

\* C9: _compute_recurring_members merges two committee records into one
\* profile if and only if their normalised names (case-folded, diacritics
\* stripped, periods removed, whitespace collapsed) are equal; the merged
\* profile's total_memberships is the number of merged records and its
\* count of each year is the number of merged records of that year.  The
\* records are those with a name: the loop skips a record whose name is
\* blank, and the records of a key without a year count in
\* total_memberships only.
C9_MergeByNormalisedName ==
    /\ \A k \in DOMAIN member_map : PersonOf(member_map[k].name) \in Persons
    /\ \A person \in Persons :
         /\ Cardinality(ProfilesOf(person))
               = IF RecordsOf(person) > 0 THEN 1 ELSE 0
         /\ \A k \in ProfilesOf(person) :
              /\ member_map[k].total_memberships = RecordsOf(person)
              /\ member_map[k].years_count
                    = [y \in YearsOf(person) |-> RecordsIn(person, y)]
         /\ (agg_pc = "done" /\ RecordsOf(person) >= 2) =>
              \E i \in 1..Len(members_list) :
                 /\ PersonOf(members_list[i].name) = person
                 /\ members_list[i].total_memberships = RecordsOf(person)
                 /\ members_list[i].years
                       = [y \in YearsOf(person) |-> RecordsIn(person, y)]

\* "A. Smith" of 2021 and "A Smith" of 2023 came back as one profile with
\* total 2 and one membership in each year
C9_Witness ==
    /\ agg_pc = "done"
    /\ aggLog = ([name |-> ASmithDot, conf_year |-> "osdi2021",
                  affiliation |-> AffX] :> 1)
                   @@ ([name |-> ASmith, conf_year |-> "sosp2023",
                        affiliation |-> AffY] :> 1)
    /\ Len(members_list) = 1
    /\ members_list[1].total_memberships = 2
    /\ members_list[1].years = (2021 :> 1) @@ (2023 :> 1)

EndsWithPeriod(title) == title # <<>> /\ title[Len(title)] = "."
ReturnedTitles ==
    {parsed_results.records[i].title : i \in 1..Len(parsed_results.records)}

RECURSIVE FirstAppearances(_, _)
\* the badges of the marks, each at its first appearance only
FirstAppearances(marks, seen) ==
    IF marks = <<>> THEN <<>>
    ELSE IF Head(marks) = "none" \/ Head(marks) \in seen
    THEN FirstAppearances(Tail(marks), seen)
    ELSE <<Head(marks)>>
            \o FirstAppearances(Tail(marks), seen \cup {Head(marks)})

NoDuplicates(badges) ==
    \A i, j \in 1..Len(badges) : badges[i] = badges[j] => i = j

\* C11: in every record emitted by any strategy or scraper the badges hold
\* each badge value at most once, in the order of first appearance in the
\* source, even when the source repeats a badge.
C11_BadgesOnceInSourceOrder ==
    ext_pc = "done" =>
        /\ NoDuplicates(ext_badges)
        /\ ext_badges = SelectSeq(FirstAppearances(ext_marks, {}),
                                  LAMBDA b : b \in Range(ext_badges))

\* C12: for every content of a cache file that is no well-formed entry,
\* _read_cache and _read_cache_entry behave as if the entry were absent
\* (they return None), _refresh_cache_ts does nothing, and none of them,
\* nor the _cached_get that called them, raises an error because of the
\* entry: _cached_get makes its request as for an absent entry.
C12_CorruptEntryIsAbsent ==
    (cf_pc = "done" /\ ~WellFormed(cache_file)) =>
        /\ cf_result.raised \in {PyNone, "HTTPError"}
        /\ cf_call \in {"_read_cache", "_read_cache_entry"}
              => cf_result.value = PyNone
        /\ cf_call = "_refresh_cache_ts" => cf_result.file = cache_file
        /\ cf_call = "_cached_get"
              => /\ cf_result.requests = 1
                 /\ cf_result.raised = PyNone => cf_result.value = "body"

\* a conference whose own fetch and document are sound: a download
\* succeeded and the page holds records
SoundConference(c) ==
    /\ batch_in[c].doc # NoDoc
    /\ IF batch_fn = "get_committees"
       THEN batch_in[c].doc[1] = "members"
       ELSE batch_in[c].doc[1].fm = "artifacts"
\* the fetch or the document of a conference failed
FailedConference(c) ==
    /\ batch_in[c] # NoInput
    /\ ~SoundConference(c)

\* C13: a failure fetching or parsing one conference-year never aborts
\* get_ae_results or get_committees: the call does not end in an exception,
\* and what it returns holds every conference-year that is sound.
C13_FailureNeverAbortsBatch ==
    /\ batch_pc # "raised"
    /\ batch_pc = "returned" =>
         \A c \in BatchConfs : SoundConference(c) => c \in batch_out

\* C14: classify_member resolves both the country and the institution or
\* neither of them, and the empty affiliation is never resolved.
C14_BothOrNeither ==
    cls_pc = "done" =>
        /\ classified.country = PyNone <=> classified.name = PyNone
        /\ affiliation = <<>> => classified = NoUni
\* an affiliation was resolved, to a country and an institution
C14_Witness ==
    /\ cls_pc = "done"
    /\ affiliation # <<>>
    /\ classified.country # PyNone
    /\ classified.name # PyNone

\* the overrides that are inserted under a key, in list order
OverridesOf(k) ==
    SelectSeq(university_info.overrides,
              LAMBDA uni : k \in Range(IndexKeys(uni)))
\* a key under which an entry of the public list and an override are
\* inserted
Collides(k) ==
    /\ OverridesOf(k) # <<>>
    /\ \E i \in 1..Len(university_info.public) :
          k \in Range(IndexKeys(university_info.public[i]))

\* C15: where an override and an entry of the public list collide on a key
\* of the index, classify_member on that key resolves to the override, the
\* later insertion.
C15_OverrideWinsCollision ==
    (cls_pc = "done" /\ Collides(AffLower)) =>
        classified = Resolved(OverridesOf(AffLower)[Len(OverridesOf(AffLower))])
\* a colliding key was looked up and resolved to the override
C15_Witness ==
    /\ cls_pc = "done"
    /\ Collides(AffLower)
    /\ classified = Resolved(NUOverride)

\* C16: once the source is marked blocked, a task that starts issues no
\* request, and a paper whose badges are fresh in the acm_badges cache is
\* still returned with them, not with empty badges.
C16_CachedServedWhenBlocked ==
    /\ \A p \in acmHist.sawFalse : fpc[p] = "done"
    /\ ~acmHist.cachedSkipped

\* every task of the running call has returned
AllReturned == acmCall \in AcmCalls /\ \A p \in Papers : fpc[p] = "done"

\* C18: scrape_acm_proceedings returns one record for every paper of the
\* DBLP list, with empty badges for the papers whose lookup was skipped, and
\* reports the source inaccessible exactly if as many lookups as the
\* threshold came back without badges, under every schedule of the pool.
C18_DegradesAndReports ==
    AllReturned =>
        /\ \A p \in Papers : fresult[p] \in {"empty", "scraped"}
        /\ \A p \in acmHist.sawFalse : fresult[p] = "empty"
        /\ ~acm_dl_accessible <=> acmHist.noneCount >= BlockThreshold

\* the entry of the URL in a namespace
EntryOf(ns) == cache[<<ns, Url>>]
\* a step that is a call: neither the clock nor the origin moves.  A call
\* is of the function in whose namespace the URL has an entry.
CallStep == now' = now /\ srvBody' = srvBody
\* the call finds an expired entry that carries an ETag
ExpiredWithEtag(ns, ttl) ==
    /\ EntryOf(ns).kind = "ok"
    /\ EntryOf(ns).etag # PyNone
    /\ _read_cache(cache, Url, ttl, ns) = PyNone
\* what a call that finds such an entry does
Revalidates(ns, header) ==
    /\ header = EntryOf(ns).etag
    /\ lastGet'.requests >= 1
    /\ lastGet'.conditional
    /\ lastGet'.status = "304" =>
          /\ lastGet'.result = EntryOf(ns).body
          /\ EntryOf(ns)' = [EntryOf(ns) EXCEPT !.ts = now]
\* the call that follows a revalidated one within the TTL
FreeAfterRevalidation(ns, ttl) ==
    (lastGet.status = "304" /\ now - EntryOf(ns).ts < ttl) =>
        /\ lastGet'.requests = 0
        /\ lastGet'.result = lastGet.result

\* C17: a call of _cached_get or cached_github_stats that finds an expired
\* entry with an ETag sends that ETag as If-None-Match; answered 304, it
\* returns the stored body and changes nothing of the entry but its
\* timestamp, which becomes the current time; and the call that follows a
\* 304 within the TTL sends no request and returns the same body.
C17_RevalidationRefreshesTimestamp ==
    [][ CallStep =>
          /\ ExpiredWithEtag("http_get", CACHE_TTL) =>
                Revalidates("http_get", IfNoneMatch(cache, Url))
          /\ EntryOf("http_get").kind = "ok" =>
                FreeAfterRevalidation("http_get", CACHE_TTL)
          /\ ExpiredWithEtag("github_stats", CACHE_TTL_STATS) =>
                Revalidates("github_stats", StatsIfNoneMatch(cache, Url))
          /\ EntryOf("github_stats").kind = "ok" =>
                FreeAfterRevalidation("github_stats", CACHE_TTL_STATS)
      ]_vars
\* cached_github_stats found an expired entry with an ETag, was answered 304
\* and left the entry with the current time
C17_Witness ==
    /\ lastGet.status = "304"
    /\ lastGet.conditional
    /\ lastGet.hadEtag
    /\ lastGet.freshBody = PyNone
    /\ EntryOf("github_stats").kind = "ok"
    /\ EntryOf("github_stats").ts = now
    /\ EntryOf("github_stats").body = lastGet.result

\* the profile of a person in a member map
ProfileIn(map, person) ==
    map[CHOOSE k \in DOMAIN map : PersonOf(map[k].name) = person]
YearOf(record) == _extract_conf_year(record.conf_year).year
\* the step processes a record of a person who has a record of the same
\* year already, no record of the person being of a later year
TieAtMaximumYear ==
    /\ agg_pc = "loop"
    /\ agg_pc' = "loop"
    /\ aggLog' # aggLog
    /\ PersonOf(aggLast'.name) \in Persons
    /\ YearOf(aggLast') # 0
    /\ RecordsIn(PersonOf(aggLast'.name), YearOf(aggLast')) > 0
    /\ \A y \in YearsOf(PersonOf(aggLast'.name)) : y <= YearOf(aggLast')

\* C19 (as stated): a record of the person's maximum year that comes after
\* another record of that year does not overwrite the affiliation of the
\* profile.
C19_TieKeepsFirst ==
    [][ TieAtMaximumYear =>
          ProfileIn(member_map', PersonOf(aggLast'.name)).affiliation
             = ProfileIn(member_map, PersonOf(aggLast'.name)).affiliation
      ]_vars

\* C19 (amended): a record of the person's maximum year that comes after
\* another record of that year overwrites the affiliation of the profile
\* with its own if that is not empty, and leaves it if it is empty.
C19_TieTakesLater ==
    [][ TieAtMaximumYear =>
          ProfileIn(member_map', PersonOf(aggLast'.name)).affiliation
             = IF StrippedAffiliation(aggLast') # <<>>
               THEN StrippedAffiliation(aggLast')
               ELSE ProfileIn(member_map, PersonOf(aggLast'.name)).affiliation
      ]_vars

\* two records of one person and one year were processed, the first with
\* one affiliation and the second with another, and the profile has the
\* second
C19_Witness ==
    /\ agg_pc = "loop"
    /\ LogCount(aggLog) = 2
    /\ RecordsIn("a smith", 2023) = 2
    /\ \A e \in DOMAIN aggLog : StrippedAffiliation(e) # <<>>
    /\ \E e \in DOMAIN aggLog :
          StrippedAffiliation(e) # StrippedAffiliation(aggLast)
    /\ ProfileIn(member_map, "a smith").affiliation
          = StrippedAffiliation(aggLast)

\* the records of a person that have an affiliation, and those of them of
\* the greatest year
WithAffiliation(person) ==
    {e \in DOMAIN aggLog :
        PersonOf(e.name) = person /\ StrippedAffiliation(e) # <<>>}
MostRecent(person) ==
    {e \in WithAffiliation(person) :
        \A x \in WithAffiliation(person) : YearOf(x) <= YearOf(e)}

\* C20: whatever the records of a person and the order in which they were
\* processed, the affiliation of the profile is that of a record of the
\* greatest year among the records that have an affiliation (and empty if
\* none has one).
C20_AffiliationOfGreatestYear ==
    \A person \in Persons :
        RecordsOf(person) > 0 =>
            IF WithAffiliation(person) = {}
            THEN ProfileIn(member_map, person).affiliation = <<>>
            ELSE ProfileIn(member_map, person).affiliation
                    \in {StrippedAffiliation(e) : e \in MostRecent(person)}

\* the call sent a request and its last response was a request exception,
\* an error status, or a 403 that carries a rate-limit message
FailedAttempt ==
    /\ lastGet'.requests >= 1
    /\ lastGet'.status \in {"exception", "error", "ratelimit403"}

\* C21: a call of download_file or cached_github_stats whose network
\* attempt fails leaves the entry the URL already has as it is: body,
\* timestamp and ETag.
C21_FailedFetchKeepsEntry ==
    [][ (CallStep /\ FailedAttempt) =>
          \A ns \in {"http_get", "github_stats"} :
              EntryOf(ns).kind = "ok" => EntryOf(ns)' = EntryOf(ns)
      ]_vars

\* C22: a call of download_file that finds an expired entry for the URL and
\* whose request fails (request exception or error status) returns the body
\* stored in that entry.
C22_StaleServedOnFailure ==
    [][ (CallStep /\ FailedAttempt /\ EntryOf("http_get").kind = "ok") =>
          lastGet'.result = EntryOf("http_get").body
      ]_vars

\* C23: a call of download_file whose last response was a request
\* exception or a rate-limited response, the retry after the rate-limit
\* wait included, does not end with an exception at the caller.
C23_NetworkErrorNeverSurfaces ==
    lastGet.status \in {"exception", "ratelimit403"} => lastGet.result # "raised"

\* the first response of the call is one the function can tell to be
\* rate-limited: a 429, or a 403 whose text carries a rate-limit message
\* (the response to a HEAD request has no text)
FirstRateLimited ==
    /\ rl_pc = "done"
    /\ \/ rl_out.first = "429"
       \/ rl_out.first = "403rl" /\ rl_fn # "check_url_cached"

\* C24: a call of _cached_get, cached_github_stats or check_url_cached
\* whose first response is rate-limited retries exactly once, so that two
\* requests reach the server whatever the second response is, and the wait
\* of the function before its retry is positive.
C24_RateLimitSleepsThenRetriesOnce ==
    FirstRateLimited =>
        /\ rl_out.requests = 2
        /\ rl_out.calls = 2 => rl_out.slept > 0

\* C25: the counter of scrape_acm_proceedings counts blocked lookups in a
\* row: the source is marked blocked only when BlockThreshold lookups were
\* blocked (HTTP 403) with no lookup that returned badges between them;
\* a paper without DOI and a lookup that returned badges do not count.
C25_MarkedAfterThreeInARow ==
    (acmCall \in AcmCalls /\ ~acm_dl_accessible) => acmHist.inARow

\* C26: when all tasks of a call have returned, blocked_count is the number
\* of lookups that returned None, under every schedule of the workers, and
\* the source is reported blocked whenever that number has reached the
\* threshold.
C26_NoIncrementLost ==
    AllReturned =>
        /\ blocked_count = acmHist.noneCount
        /\ acmHist.noneCount >= BlockThreshold => ~acm_dl_accessible

\* the records of the first strategy, in the order front matter, HTML
\* table, markdown table, that finds at least one record in the document
FirstWithRecords(c) ==
    LET fm == IF c.fm \in {"artifacts", "issues"}
              THEN FrontMatterArtifacts(c) ELSE <<>>
        html == parse_html_results(c)
    IN  IF fm # <<>> THEN fm
        ELSE IF html # <<>> THEN html
        ELSE parse_markdown_table_results(c)

\* C27: the result get_ae_results keeps for a document is the whole result
\* of the first strategy that finds at least one record in it; a front
\* matter without records does not keep the table strategies from being
\* tried.
C27_FirstStrategyWithRecordsWins ==
    (ae_pc = "done" /\ parsed_results.kind # "TypeError") =>
        parsed_results.records = FirstWithRecords(content)

RECURSIVE IsSubsequence(_, _)
\* the elements of `a` occur in `b` in the order of `a`
IsSubsequence(a, b) ==
    IF a = <<>> THEN TRUE
    ELSE IF b = <<>> THEN FALSE
    ELSE IF Head(a) = Head(b) THEN IsSubsequence(Tail(a), Tail(b))
    ELSE IsSubsequence(a, Tail(b))

\* the names of the records of a list, and the names the lines of a
\* document give, each in order
RecordNames(list) == [i \in 1..Len(list) |-> list[i].name]
LineNames(doc) == RecordNames(ParseLines(doc, "member"))

\* C28: the records get_committee_for_conference returns are in the order
\* of the lines of the document they come from, whatever the order of the
\* chair section and the member section.
C28_RecordsInDocumentOrder ==
    cm_pc = "done" => IsSubsequence(RecordNames(cm_committee), LineNames(cm_doc))

\* the github_stats cache holds a negative result for the URL, written
\* less than CACHE_TTL_STATS ago
NegativeFresh ==
    /\ EntryOf("github_stats").kind = "ok"
    /\ EntryOf("github_stats").body = PyNone
    /\ IsFresh(EntryOf("github_stats"), CACHE_TTL_STATS)

\* C29: a call of cached_github_stats made while the cache holds a
\* negative result (body None) younger than the TTL returns None and sends
\* no request.
C29_NegativeServedFromCache ==
    [][ (CallStep /\ NegativeFresh) =>
          /\ lastGet'.requests = 0
          /\ lastGet'.result = PyNone
      ]_vars

RECURSIVE SumOf(_)
\* the sum of the values of a map to numbers
SumOf(f) ==
    IF DOMAIN f = {} THEN 0
    ELSE LET k == CHOOSE x \in DOMAIN f : TRUE
         IN  f[k] + SumOf([x \in DOMAIN f \ {k} |-> f[x]])

\* every record of the person processed so far is of a key with a year
AllWithYear(person) ==
    \A e \in DOMAIN aggLog : PersonOf(e.name) = person => YearOf(e) # 0

\* C30: after any sequence of committee records, every profile of
\* _compute_recurring_members has at least one membership, no more chair
\* roles than memberships, no more systems and security memberships
\* together than memberships, and per-year counts whose sum is at most the
\* memberships, and equal to them when every record of the person is of a
\* key with a year.
C30_ProfileCountsConsistent ==
    \A k \in DOMAIN member_map :
        LET rec == member_map[k]
        IN  /\ rec.total_memberships >= 1
            /\ rec.chair_count <= rec.total_memberships
            /\ rec.sys_memberships + rec.sec_memberships <= rec.total_memberships
            /\ SumOf(rec.years_count) <= rec.total_memberships
            /\ AllWithYear(PersonOf(rec.name)) =>
                  SumOf(rec.years_count) = rec.total_memberships

\* a profile of three memberships, one of them as chair, two of systems
\* conferences and one of a security conference whose key has no year
C30_Witness ==
    /\ \E k \in DOMAIN member_map :
          /\ member_map[k].total_memberships = 3
          /\ member_map[k].chair_count = 1
          /\ SumOf(member_map[k].years_count) = 2
          /\ member_map[k].sys_memberships = 2
          /\ member_map[k].sec_memberships = 1

====
